---- MODULE Spec2Model ----
(***************************************************************************)
(* A model of the Napkin AI API playground: the batch generation of        *)
(* src/core/generator.py, the request path, error translation, rate-limit  *)
(* tracking and status polling of src/api/client.py, and the scoped        *)
(* lifetime of the client's connection pool.                               *)
(*                                                                         *)
(* Three specifications share the module's variables:                      *)
(*   BatchSpec    VisualGenerator.generate_batch                           *)
(*   Spec         NapkinAPIClient._make_request / get_status /             *)
(*                wait_for_completion / get_rate_limit_status              *)
(*   SessionSpec  the scoped sessions of NapkinAPIClient, VisualGenerator  *)
(***************************************************************************)
EXTENDS Integers, Sequences, FiniteSets, TLC

\* Python's None, and the absence of a header or of a JSON key.
None == "None"

(***************************************************************************)
(* Bounds of the model.                                                    *)
(***************************************************************************)
\* most content items handed to one generate_batch call
MaxItems == 3
\* largest concurrency limit (parameter or setting) that is tried
MaxLimit == 2
\* largest poll budget (max_attempts argument or Settings.max_poll_attempts) tried
MaxPolls == 3
\* scoped sessions (clients or generators) that are opened, possibly at once
MaxSessions == 3
\* get_settings / reload_settings calls in one history
MaxCalls == 4

\* threads that call get_settings at the same time
MaxThreads == 3

VARIABLES
    \* ---- generate_batch (src/core/generator.py) ----
    contents,          \* the contents argument, a sequence of strings
    concurrent_limit,  \* the concurrent_limit argument (None when unset)
    settings_limit,    \* Settings.batch_concurrent_limit
    bpc,               \* position of generate_batch: "init", "gathering", "returned", "raised"
    semaphore,         \* free permits of the asyncio.Semaphore
    task,              \* task[i]: position of generate_one(contents[i], i-1)
    taskResult,        \* taskResult[i]: what generate_one returned
    doneOrder,         \* the order in which the tasks finished
    batchResult,       \* the list generate_batch returned
    \* ---- NapkinAPIClient (src/api/client.py) ----
    op,                \* the client call in progress or last finished
    pc,                \* "idle", "request" (inside _make_request), "wait_loop"
    tries,             \* attempts tenacity has started for the current _make_request
    resp,              \* the last response the current call received, <<>> when none
    outcome,           \* what the last call returned or raised
    rate_limit_info,   \* NapkinAPIClient.rate_limit_info, <<>> when None
    lastHeaderInfo,    \* what the most recent response with rate-limit headers carried
    max_attempts,      \* wait_for_completion: the attempt budget in force
    attempts,          \* wait_for_completion: the loop counter
    polls,             \* get_status calls the current wait_for_completion has issued
    pollsReturned,     \* ... of which returned a StatusResponse
    pollsNonTerminal,  \* ... of which returned pending or processing
    \* ---- scoped sessions (client.py:74-113, generator.py:26-45) ----
    skind,             \* skind[s]: "client" (async with NapkinAPIClient) or "generator"
    spc,               \* spc[s]: "new", "body", "exiting", "exited"
    sexit,             \* sexit[s]: how the body of the scope ended
    owns_client,       \* owns_client[s]: NapkinAPIClient._owns_client
    pool,              \* pool[s]: the httpx.AsyncClient: "none", "open", "closed"
    closes,            \* closes[s]: the aclose() calls made on the pool
    \* ---- the settings singleton (src/utils/config.py) ----
    environ,           \* os.environ and .env, as far as Settings() reads them
    _settings,         \* the module global _settings: 0 (None) or an instance
    heap,              \* heap[k]: the field values of the k-th Settings instance built
    calls,             \* the get_settings / reload_settings calls made, oldest first
    \* ---- construction of the pydantic models (src/api/models.py) ----
    model,             \* the class being constructed
    kwargs,            \* the keyword arguments of the constructor call
    mpc,               \* "args" (not yet called), "built", "failed" (ValidationError)
    instance,          \* the instance that was built
    \* ---- get_style_by_name (src/utils/constants.py) ----
    style_name,        \* the name argument, a sequence of characters
    styleOutcome,      \* what the call returned or raised
    \* ---- VisualGenerator.generate (src/core/generator.py) ----
    gpc,               \* position of generate: "idle", "prepare", "create", "wait",
                       \* "mkdir", "download", "returned", "raised"
    save_files,        \* the save_files argument
    final_status,      \* what wait_for_completion returned
    file_index,        \* the files the download loop has gone through
    saved_paths,       \* the list saved_paths
    downloads,         \* how the download of each file so far ended
    generated,         \* what generate returned or raised
    api_called,        \* the client was asked to send a request to the Visual API
    \* ---- the CLI generate command (src/cli/commands.py) ----
    cpc,               \* "shell", "settings", "format", "generating", "exited"
    cli_format,        \* --format, a sequence of characters; <<>> when not given
    cli_width,         \* --width, None when not given
    cli_debug,         \* --debug
    shown,             \* the display_error / print_exception calls made, in order
    exit_code,         \* the exit status of the process, None while it runs
    \* ---- the CI error reporter (.github/scripts/error_reporter.py) ----
    reporter_environ,  \* os.environ, as far as the reporter reads it
    rpc,               \* position of main: "idle", "slack", "discord", "api", "issue",
                       \* "save", "exited"
    success,           \* the local success of main
    notified,          \* the notification calls main made, in order
    reporter_exit,     \* the exit status of the script, None while it runs
    snapshot,          \* error_report.json: "none", "written" or "failed"
    \* ---- the CI failure-monitor scripts (scripts/*.py) ----
    script,            \* the script that runs
    command,           \* its subcommand: "list", "analyze", "report"
    monitor_pc,        \* "shell", "repo", "token", "fetch", "exited"
    monitor_environ,   \* what the run finds: repository, git remote, token
    repo,              \* the repository the script detected, None when it gave up
    warned,            \* the missing-token warning was printed
    fetches,           \* how each fetch of the run history ended, in order
    monitor_exit,      \* the exit status of the script, None while it runs
    \* ---- downloads outside _make_request (client.py:342-442, 509-519) ----
    direct_call,       \* the call: method, save_path, file names the response offers
    overwrite_env,     \* NAPKIN_DOWNLOAD_OVERWRITE
    disk,              \* disk[p]: the content of path p: "absent", "old", "new", "partial"
    dpc,               \* "idle", "get" (the GET is in flight), "done"
    gets,              \* GET requests the call has issued
    direct_outcome,    \* what the call returned or raised
    \* ---- the sleeps of wait_for_completion (client.py:541-573) ----
    poll_interval,     \* the interval in force: the argument or the setting
    delay,             \* the local delay
    sleeps,            \* the asyncio.sleep calls made, in order
    wait_attempts,     \* the local attempts
    wait_max,          \* the local max_attempts
    wpc,               \* "idle", "loop", "returned", "raised"
    \* ---- the dashboard's worker (streamlit_app.py:63-167) ----
    worker_call,       \* the parameters the dashboard collected
    worker_pc,         \* "idle", "settings", "scope", "generating", "done"
    worker_outcome,    \* how run_generation_in_worker ended
    \* ---- concurrent callers of get_settings (config.py:283-303) ----
    tpc,               \* the position of each thread inside get_settings
    built,             \* the local result of _build_settings() in each thread
    got_settings,      \* what get_settings returned to each thread
    late               \* the call began after every building caller had returned

batchVars == <<contents, concurrent_limit, settings_limit, bpc, semaphore, task,
               taskResult, doneOrder, batchResult>>

clientVars == <<op, pc, tries, resp, outcome, rate_limit_info, lastHeaderInfo,
                max_attempts, attempts, polls, pollsReturned, pollsNonTerminal>>

sessionVars == <<skind, spc, sexit, owns_client, pool, closes>>

settingsVars == <<environ, _settings, heap, calls>>

modelVars == <<model, kwargs, mpc, instance>>

styleVars == <<style_name, styleOutcome>>

generateVars == <<gpc, save_files, final_status, file_index, saved_paths, downloads,
                  generated, api_called>>

cliVars == <<cpc, cli_format, cli_width, cli_debug, shown, exit_code>>

reporterVars == <<reporter_environ, rpc, success, notified, reporter_exit, snapshot>>

monitorVars == <<script, command, monitor_pc, monitor_environ, repo, warned, fetches,
                 monitor_exit>>

directVars == <<direct_call, overwrite_env, disk, dpc, gets, direct_outcome>>

backoffVars == <<poll_interval, delay, sleeps, wait_attempts, wait_max, wpc>>

dashboardVars == <<worker_call, worker_pc, worker_outcome>>

raceVars == <<tpc, built, got_settings, late>>

vars == <<batchVars, clientVars, sessionVars, settingsVars, modelVars, styleVars,
          generateVars, cliVars, reporterVars, monitorVars, directVars, backoffVars, dashboardVars, raceVars>>

(***************************************************************************)
(* Python helpers.                                                         *)
(***************************************************************************)
\* An optional integer is <<>> (None) or <<n>>.
NoInt == <<>>
Some(n) == <<n>>

\* x or d, for an optional integer x: None and 0 are falsy.
PyOr(x, d) == IF x = NoInt \/ x = Some(0) THEN d ELSE x[1]

\* all sequences over S of length at most n
SeqUpTo(S, n) == UNION {[1..k -> S] : k \in 0..n}

(***************************************************************************)
(* generate_batch                                                          *)
(***************************************************************************)
\* the content strings tried
Content == {"a", "b"}

\* What one generate() call can raise (all are subclasses of Exception):
\* RuntimeError (no client), pydantic's ValidationError (_prepare_request,
\* get_status), the client's typed errors, ProcessingError, tenacity's
\* RetryError, and the ValueError/KeyError/OSError of parsing and file writes.
GenerateErrors == {"RuntimeError", "ValidationError", "AuthenticationError",
                   "RateLimitError", "RequestError", "NapkinAPIError",
                   "ProcessingError", "RetryError", "ValueError", "OSError"}

\* the path lists a successful generate() returns, abstracted to their length
PathLists == {<<>>, <<"p1">>}

NoResult == <<None, "pending", <<>>>>

\* the limit the semaphore is created with (generator.py:314)
EffectiveLimit == PyOr(concurrent_limit, settings_limit)

\* asyncio.Semaphore(concurrent_limit): its initial number of permits
SemaphoreInitTooMany(limit) == limit + 1
SemaphoreInit(limit) == limit

\* `except Exception` of generate_one (generator.py:336): which errors it catches
CatchesApiErrorsOnly(e) == e \in {"AuthenticationError", "RateLimitError", "RequestError",
                                  "NapkinAPIError", "ProcessingError"}
Catches(e) == e \in GenerateErrors

\* results = await asyncio.gather(*tasks): one entry per task, in task order
GatherByCompletion(tr, order) == [k \in 1..Len(order) |-> tr[order[k]]]
Gather(tr, order) == [i \in 1..Len(tr) |-> tr[i]]

Running == {i \in DOMAIN task : task[i] = "generating"}

\* no batch in progress
BatchIdle ==
    /\ contents = <<>>
    /\ concurrent_limit = NoInt
    /\ settings_limit = 1
    /\ bpc = "init"
    /\ semaphore = 0
    /\ task = <<>>
    /\ taskResult = <<>>
    /\ doneOrder = <<>>
    /\ batchResult = <<>>

BatchInit ==
    /\ contents \in SeqUpTo(Content, MaxItems)
    /\ concurrent_limit \in {NoInt} \cup {Some(n) : n \in 0..MaxLimit}
    /\ settings_limit \in 1..MaxLimit
    /\ bpc = "init"
    /\ semaphore = 0
    /\ task = <<>>
    /\ taskResult = <<>>
    /\ doneOrder = <<>>
    /\ batchResult = <<>>

\* generate_batch up to `await asyncio.gather(*tasks)`: the semaphore and one
\* generate_one task per content item are created (generator.py:314-346).
BatchStart ==
    /\ bpc = "init"
    /\ bpc' = "gathering"
    /\ semaphore' = SemaphoreInit(EffectiveLimit)
    /\ task' = [i \in 1..Len(contents) |-> "created"]
    /\ taskResult' = [i \in 1..Len(contents) |-> NoResult]
    /\ UNCHANGED <<contents, concurrent_limit, settings_limit, doneOrder, batchResult>>

\* `async with semaphore` of task i acquires a permit and generate() starts
\* (generator.py:321-328).
Acquire(i) ==
    /\ bpc = "gathering"
    /\ task[i] = "created"
    /\ semaphore > 0
    /\ semaphore' = semaphore - 1
    /\ task' = [task EXCEPT ![i] = "generating"]
    /\ UNCHANGED <<contents, concurrent_limit, settings_limit, bpc, taskResult,
                   doneOrder, batchResult>>

\* generate() of task i returns (status, paths); the permit is released
\* (generator.py:328-335).
GenerateReturns(i, paths) ==
    /\ bpc = "gathering"
    /\ task[i] = "generating"
    /\ task' = [task EXCEPT ![i] = "done"]
    /\ taskResult' = [taskResult EXCEPT ![i] = <<contents[i], "completed", paths>>]
    /\ semaphore' = semaphore + 1
    /\ doneOrder' = Append(doneOrder, i)
    /\ UNCHANGED <<contents, concurrent_limit, settings_limit, bpc, batchResult>>

\* generate() of task i raises e; the permit is released on the way out of
\* `async with`. A caught error gives (content, None, []); an uncaught one
\* ends the task with the exception, which gather re-raises to the caller
\* of generate_batch (generator.py:336-338, 346).
GenerateRaisesKeepingPermit(i, e) ==
    /\ bpc = "gathering"
    /\ task[i] = "generating"
    /\ semaphore' = semaphore
    /\ doneOrder' = Append(doneOrder, i)
    /\ IF Catches(e)
       THEN /\ task' = [task EXCEPT ![i] = "failed"]
            /\ taskResult' = [taskResult EXCEPT ![i] = <<contents[i], None, <<>>>>]
            /\ bpc' = bpc
       ELSE /\ task' = [task EXCEPT ![i] = "raised"]
            /\ taskResult' = taskResult
            /\ bpc' = "raised"
    /\ UNCHANGED <<contents, concurrent_limit, settings_limit, batchResult>>

GenerateRaises(i, e) ==
    /\ bpc = "gathering"
    /\ task[i] = "generating"
    /\ semaphore' = semaphore + 1
    /\ doneOrder' = Append(doneOrder, i)
    /\ IF Catches(e)
       THEN /\ task' = [task EXCEPT ![i] = "failed"]
            /\ taskResult' = [taskResult EXCEPT ![i] = <<contents[i], None, <<>>>>]
            /\ bpc' = bpc
       ELSE /\ task' = [task EXCEPT ![i] = "raised"]
            /\ taskResult' = taskResult
            /\ bpc' = "raised"
    /\ UNCHANGED <<contents, concurrent_limit, settings_limit, batchResult>>

\* every task has finished: gather returns and generate_batch returns the
\* results (generator.py:346-352).
BatchReturn ==
    /\ bpc = "gathering"
    /\ \A i \in DOMAIN task : task[i] \in {"done", "failed"}
    /\ batchResult' = Gather(taskResult, doneOrder)
    /\ bpc' = "returned"
    /\ UNCHANGED <<contents, concurrent_limit, settings_limit, semaphore, task,
                   taskResult, doneOrder>>

BatchNext ==
    \/ BatchStart
    \/ \E i \in DOMAIN task : Acquire(i)
    \/ \E i \in DOMAIN task, paths \in PathLists : GenerateReturns(i, paths)
    \/ \E i \in DOMAIN task, e \in GenerateErrors : GenerateRaises(i, e)
    \/ BatchReturn

(***************************************************************************)
(* The pydantic models: VisualRequest, StatusResponse, VisualResponse      *)
(***************************************************************************)
\* Strings are kept by their length, the only thing their constraints read;
\* floats by integer values. Fields left out of kwargs take their defaults.
PngDimMin == 100
PngDimMax == 4096
PercentMin == 0
PercentMax == 100
LongTextMax == 10000
IdStrMin == 8
IdStrMax == 64

\* RequestStatus (models.py:55-63)
RequestStatuses == {"pending", "processing", "completed", "failed", "expired"}

\* OutputFormat
OutputFormats == {"svg", "png"}

\* Optional[PngDim]: None, or a strict integer in 100..4096
PngDimOk(v) == v = NoInt \/ (v[1] >= PngDimMin /\ v[1] <= PngDimMax)

\* Optional[PercentFloat]: None, or a number in [0, 100]
PercentOk(v) == v = NoInt \/ (v[1] >= PercentMin /\ v[1] <= PercentMax)

\* BytesCount: a strict integer >= 0
BytesCountOk(n) == n >= 0

\* LongText and IdStr, by length
LongTextOk(len) == len >= 1 /\ len <= LongTextMax
IdStrOk(len) == len >= IdStrMin /\ len <= IdStrMax

\* the field constraints of VisualRequest (models.py:80-158)
VisualRequestFieldsOk(kw) ==
    /\ LongTextOk(kw.content)
    /\ kw.format \in OutputFormats
    /\ PngDimOk(kw.width)
    /\ PngDimOk(kw.height)

\* VisualRequest._validate_png_dimensions (models.py:165-171): TRUE when it
\* returns self, FALSE when it raises
ValidatePngWidthOnly(kw) == ~(kw.format # "png" /\ kw.width # NoInt)
ValidatePngDimensions(kw) ==
    ~(kw.format # "png" /\ (kw.width # NoInt \/ kw.height # NoInt))

\* VisualRequest(**kw) succeeds: the fields validate and then the
\* mode="after" validator passes
VisualRequestOk(kw) == VisualRequestFieldsOk(kw) /\ ValidatePngDimensions(kw)

\* the field constraints of StatusResponse (models.py:371-408)
StatusResponseFieldsOk(kw) ==
    /\ IdStrOk(kw.request_id)
    /\ kw.status \in RequestStatuses
    /\ PercentOk(kw.progress)
    /\ BytesCountOk(kw.files_ready)
    /\ BytesCountOk(kw.files_total)

\* StatusResponse._validate_file_counts (models.py:410-416)
ValidateFileCountsStrict(kw) ==
    /\ ~(kw.files_total < 0 \/ kw.files_ready < 0)
    /\ ~(kw.files_ready > kw.files_total)
ValidateFileCounts(kw) ==
    /\ ~(kw.files_total < 0 \/ kw.files_ready < 0)
    /\ ~(kw.files_ready > kw.files_total /\ kw.files_total # 0)

StatusResponseOk(kw) == StatusResponseFieldsOk(kw) /\ ValidateFileCounts(kw)

\* the field constraints of VisualResponse (models.py:276-311); created_at
\* is always given
VisualResponseOk(kw) ==
    /\ IdStrOk(kw.request_id)
    /\ kw.status \in RequestStatuses

\* the properties of VisualResponse (models.py:313-335)
is_completed(o) == o.status = "completed"
is_failed(o) == o.status = "failed"
is_expired(o) == o.status = "expired"
IsTerminalWithoutExpired(o) == o.status \in {"completed", "failed"}
is_terminal(o) == o.status \in {"completed", "failed", "expired"}

\* the arguments tried
ContentLengths == {0, 4, 10000, 10001}
FormatArgs == {"svg", "png", "gif"}
DimArgs == {NoInt, Some(99), Some(100), Some(1024), Some(4096), Some(4097)}
IdLengths == {7, 8}
StatusArgs == RequestStatuses \cup {"unknown"}
ProgressArgs == {NoInt, Some(-1), Some(0), Some(50), Some(100), Some(101)}
CountArgs == {-1, 0, 1, 2}

VisualRequestArgs ==
    [content : ContentLengths, format : FormatArgs, width : DimArgs, height : DimArgs]

StatusResponseArgs ==
    [request_id : IdLengths, status : {"processing", "unknown"}, progress : ProgressArgs,
     files_ready : CountArgs, files_total : CountArgs]

VisualResponseArgs == [request_id : IdLengths, status : StatusArgs]

Models == {"VisualRequest", "StatusResponse", "VisualResponse"}

ArgsOf(m) ==
    CASE m = "VisualRequest" -> VisualRequestArgs
      [] m = "StatusResponse" -> StatusResponseArgs
      [] m = "VisualResponse" -> VisualResponseArgs

NoInstanceBuilt == [model |-> "none"]

ModelIdle ==
    /\ model = "none"
    /\ kwargs = NoInstanceBuilt
    /\ mpc = "args"
    /\ instance = NoInstanceBuilt

ModelInit ==
    /\ model \in Models
    /\ kwargs \in ArgsOf(model)
    /\ mpc = "args"
    /\ instance = NoInstanceBuilt

\* the constructor call: the instance exists when validation passed
Construct(ok) ==
    /\ mpc = "args"
    /\ IF ok
       THEN mpc' = "built" /\ instance' = kwargs
       ELSE mpc' = "failed" /\ UNCHANGED instance
    /\ UNCHANGED <<model, kwargs>>

ConstructVisualRequest == model = "VisualRequest" /\ Construct(VisualRequestOk(kwargs))

ConstructStatusResponse == model = "StatusResponse" /\ Construct(StatusResponseOk(kwargs))

ConstructVisualResponse == model = "VisualResponse" /\ Construct(VisualResponseOk(kwargs))

(***************************************************************************)
(* NapkinAPIClient: responses, headers and their parsing.                  *)
(***************************************************************************)
\* A header value is the sequence of its characters. A header set maps the
\* names of the headers that are present to their values.
Digits == {"0", "1", "2", "3", "4", "5", "6", "7", "8", "9"}

DigitValue(c) ==
    CASE c = "0" -> 0 [] c = "1" -> 1 [] c = "2" -> 2 [] c = "3" -> 3 [] c = "4" -> 4
      [] c = "5" -> 5 [] c = "6" -> 6 [] c = "7" -> 7 [] c = "8" -> 8 [] c = "9" -> 9

\* the value of a non-empty digit sequence, most significant digit first
RECURSIVE DecimalValue(_)
DecimalValue(s) ==
    IF Len(s) = 0 THEN 0
    ELSE 10 * DecimalValue(SubSeq(s, 1, Len(s) - 1)) + DigitValue(s[Len(s)])

AllDigits(s) == Len(s) > 0 /\ \A k \in 1..Len(s) : s[k] \in Digits

\* whether int(s) succeeds: an optional sign and then digits only. Anything
\* else raises ValueError.
IntParses(s) ==
    /\ Len(s) > 0
    /\ IF s[1] \in {"-", "+"} THEN AllDigits(Tail(s)) ELSE AllDigits(s)

\* int(s), for a string that parses
PyInt(s) ==
    IF s[1] = "-" THEN 0 - DecimalValue(Tail(s))
    ELSE IF s[1] = "+" THEN DecimalValue(Tail(s))
    ELSE DecimalValue(s)

\* headers.get(name, default)
HeaderGet(headers, name, default) ==
    IF name \in DOMAIN headers THEN headers[name] ELSE default

\* the header sets a response may carry
NoHeaders == [n \in {} |-> <<>>]

HeaderSets ==
    { NoHeaders,
      [n \in {"X-RateLimit-Limit", "X-RateLimit-Remaining", "X-RateLimit-Reset"} |->
          CASE n = "X-RateLimit-Limit" -> <<"9">>
            [] n = "X-RateLimit-Remaining" -> <<"5">>
            [] n = "X-RateLimit-Reset" -> <<"8">>],
      [n \in {"X-RateLimit-Limit"} |-> <<"1", "2">>],
      [n \in {"Retry-After"} |-> <<"7">>],
      [n \in {"Retry-After"} |-> <<"s", "o", "o", "n">>],
      [n \in {"X-RateLimit-Limit", "X-RateLimit-Remaining", "X-RateLimit-Reset",
              "Retry-After"} |->
          CASE n = "X-RateLimit-Limit" -> <<"x">>
            [] n = "X-RateLimit-Remaining" -> <<"x">>
            [] n = "X-RateLimit-Reset" -> <<"x">>
            [] n = "Retry-After" -> <<"3">>],
      [n \in {"X-RateLimit-Limit", "X-RateLimit-Reset"} |->
          CASE n = "X-RateLimit-Limit" -> <<"-", "1">>
            [] n = "X-RateLimit-Reset" -> <<"8">>] }

\* the readings of the clock (seconds since the epoch) at a response
Clock == {50}

\* a JSON key that is missing from an object
Absent == "<absent>"

\* A response body: a JSON object (with its keys error, code, details and
\* status, each Absent or a string), a JSON array, or text that is not JSON.
\* A JSON value under the keys generated_files, files and urls of a status
\* payload: the key is missing, or its value is null, or it is a list. A file
\* object is kept by its id and url, a URL string by its text.
JsonMissing == [kind |-> "missing", items |-> <<>>]
JsonNull == [kind |-> "null", items |-> <<>>]
JsonList(items) == [kind |-> "list", items |-> items]
FileObject(id, url) == [id |-> id, url |-> url]
JsonString(text) == [string |-> text]

\* the keys of a status payload that get_status reads besides status and
\* error (client.py:307-309, 322-323, 328); a number that is missing or
\* null is NoInt
Payload(generated_files, files, urls, files_ready, files_total, progress) ==
    [generated_files |-> generated_files, files |-> files, urls |-> urls,
     files_ready |-> files_ready, files_total |-> files_total, progress |-> progress]

NoPayload == Payload(JsonMissing, JsonMissing, JsonMissing, NoInt, NoInt, NoInt)

Body(kind, error, code, details, status, text) ==
    [kind |-> kind, error |-> error, code |-> code, details |-> details,
     status |-> status, text |-> text, payload |-> NoPayload]

\* a status payload with file lists or counters
StatusBody(status, payload) ==
    [Body("object", Absent, Absent, Absent, status, "{...}") EXCEPT !.payload = payload]

\* the bodies of the responses with status >= 400
ErrorBodies ==
    { Body("object", "quota exceeded", "E_QUOTA", "details-1", Absent, "{...}"),
      Body("object", "quota exceeded", Absent, Absent, Absent, "{...}"),
      Body("object", Absent, Absent, Absent, Absent, "{}"),
      Body("array", Absent, Absent, Absent, Absent, "[]"),
      Body("text", Absent, Absent, Absent, Absent, "gateway down"),
      Body("text", Absent, Absent, Absent, Absent, "") }

\* the file objects and URLs of the payloads tried
G1 == FileObject("file-g1", "https://cdn/g1")
G2 == FileObject("file-g2", Absent)
F1 == FileObject("file-f1", "https://cdn/f1")
U1 == JsonString("https://cdn/u1")
U2 == JsonString("https://cdn/u2")

\* <<generated_files, files, urls>> of the payloads tried
FileListCases ==
    { <<JsonList(<<G1, G2>>), JsonList(<<F1>>), JsonList(<<U1>>)>>,
      <<JsonList(<<>>), JsonList(<<F1>>), JsonMissing>>,
      <<JsonNull, JsonList(<<F1>>), JsonList(<<U1, U2>>)>>,
      <<JsonMissing, JsonList(<<F1>>), JsonList(<<U1, U2>>)>>,
      <<JsonMissing, JsonMissing, JsonList(<<U1, U2>>)>>,
      <<JsonMissing, JsonMissing, JsonList(<<>>)>>,
      <<JsonMissing, JsonMissing, JsonMissing>>,
      <<JsonNull, JsonNull, JsonNull>> }

\* <<files_ready, files_total>> of the payloads tried
CounterCases ==
    { <<NoInt, NoInt>>, <<Some(1), Some(3)>>, <<Some(3), Some(0)>>, <<NoInt, Some(3)>> }

\* the bodies of the 200 responses of the status endpoint
StatusBodies ==
    { Body("object", Absent, Absent, Absent, s, "{...}") : s \in RequestStatuses }
    \cup { Body("object", "render failed", Absent, Absent, "failed", "{...}"),
           Body("object", Absent, Absent, Absent, "bogus", "{...}"),
           Body("object", Absent, Absent, Absent, Absent, "{}"),
           Body("text", Absent, Absent, Absent, Absent, "") }
    \cup { StatusBody("completed", Payload(fl[1], fl[2], fl[3], c[1], c[2], NoInt)) :
              fl \in FileListCases, c \in CounterCases }
    \cup { StatusBody("processing", Payload(JsonMissing, JsonMissing, JsonMissing,
                                            c[1], c[2], Some(50))) :
              c \in {<<Some(0), Some(2)>>, <<Some(2), Some(1)>>, <<Some(-1), Some(1)>>} }

\* the body of a 200 response of the other endpoints
OkBodies == { Body("object", Absent, Absent, Absent, "pending", "{...}") }

\* HTTP_STATUS (constants.py:192-201)
HttpBadRequest == 400
HttpUnauthorized == 401
HttpRateLimit == 429
HttpServerError == 500

\* the status codes the server answers with
SuccessStatusCodes == {200}
ErrorStatusCodes == {HttpBadRequest, HttpUnauthorized, HttpRateLimit, HttpServerError}

\* `response.status_code >= 400` (client.py:213)
ErrorThreshold == 400

Response(status, headers, body, now) ==
    [status_code |-> status, headers |-> headers, body |-> body, now |-> now]

\* the responses the server may give to a call of `caller`
Responses(caller) ==
    { Response(c, h, b, t) : c \in ErrorStatusCodes, h \in HeaderSets,
                             b \in ErrorBodies, t \in Clock }
    \cup { Response(c, h, b, t) :
              c \in SuccessStatusCodes,
              h \in HeaderSets,
              b \in (IF caller \in {"get_status", "wait_for_completion"}
                     THEN StatusBodies ELSE OkBodies),
              t \in Clock }

(***************************************************************************)
(* NapkinAPIClient._extract_rate_limit_info                                *)
(***************************************************************************)
\* the defaults of the header parsing (client.py:123-129)
DefaultLimit == 60
DefaultRemaining == 0

NoInfo == <<>>

\* int(headers.get(name, default)), falling back to `fallback` on ValueError
IntHeaderOr(headers, name, default, fallback) ==
    LET v == HeaderGet(headers, name, default)
    IN  IF IntParses(v) THEN PyInt(v) ELSE fallback

\* the reset timestamp (client.py:132-147): from X-RateLimit-Reset when it
\* parses; when it is present and does not parse, from the clock and
\* Retry-After; None (<<>>) otherwise.
ResetOf(headers, now) ==
    IF "X-RateLimit-Reset" \notin DOMAIN headers THEN NoInt
    ELSE IF IntParses(headers["X-RateLimit-Reset"])
         THEN Some(PyInt(headers["X-RateLimit-Reset"]))
         ELSE IF "Retry-After" \in DOMAIN headers /\ IntParses(headers["Retry-After"])
              THEN Some(now + PyInt(headers["Retry-After"]))
              ELSE NoInt

\* retry_after (client.py:150-155)
RetryAfterOf(headers) ==
    IF "Retry-After" \in DOMAIN headers /\ IntParses(headers["Retry-After"])
    THEN Some(PyInt(headers["Retry-After"]))
    ELSE NoInt

\* RateLimitInfo's field constraints (models.py:483-506): limit and remaining
\* are >= 0, reset is a required datetime, retry_after is None or >= 0.
RateLimitInfoValid(info) ==
    /\ info.limit >= 0
    /\ info.remaining >= 0
    /\ info.reset # NoInt
    /\ (info.retry_after # NoInt => info.retry_after[1] >= 0)

\* _extract_rate_limit_info (client.py:115-165): <<info>>, or <<>> for None.
\* A RateLimitInfo that fails validation raises inside the outer try, which
\* logs and returns None.
extract_rate_limit_info(headers, now) ==
    IF "X-RateLimit-Limit" \in DOMAIN headers \/ "Retry-After" \in DOMAIN headers
    THEN LET info == [limit |-> IntHeaderOr(headers, "X-RateLimit-Limit", <<"6", "0">>,
                                            DefaultLimit),
                      remaining |-> IntHeaderOr(headers, "X-RateLimit-Remaining", <<"0">>,
                                                DefaultRemaining),
                      reset |-> ResetOf(headers, now),
                      retry_after |-> RetryAfterOf(headers)]
         IN  IF RateLimitInfoValid(info) THEN <<info>> ELSE NoInfo
    ELSE NoInfo

\* whether a response carries rate-limit headers (client.py:120)
CarriesRateLimitHeaders(headers) ==
    "X-RateLimit-Limit" \in DOMAIN headers \/ "Retry-After" \in DOMAIN headers

(***************************************************************************)
(* What a call returns or raises.                                          *)
(***************************************************************************)
\* An exception message: a format and what fills it.
Msg(fmt, arg, n) == [fmt |-> fmt, arg |-> arg, n |-> n]
NoMsg == Msg("", "", 0)

\* a list attribute that is None, or a list
NoList == <<>>
SomeList(items) == <<items>>

\* the attributes of a StatusResponse that the callers read
StatusValue(status, error, files_ready, files_total, files) ==
    [status |-> status, error |-> error, files_ready |-> files_ready,
     files_total |-> files_total, files |-> files]

NoStatus == StatusValue(None, None, 0, 0, NoList)

\* kind: "pending" (call in progress), "ok" (returned) or the class of the
\* exception raised; code, details, retry_after: the attributes of a
\* NapkinAPIError; cause: the exception a RetryError wraps; value: the
\* StatusResponse returned.
Outcome(kind, message, code, details, retry_after, cause, value) ==
    [kind |-> kind, message |-> message, code |-> code, details |-> details,
     retry_after |-> retry_after, cause |-> cause, value |-> value]

Pending == Outcome("pending", NoMsg, None, None, NoInt, None, NoStatus)
Returned(value) == Outcome("ok", NoMsg, None, None, NoInt, None, value)
Raised(kind, message) == Outcome(kind, message, None, None, NoInt, None, NoStatus)

\* NapkinAPIError(message, code, details) and its subclasses (client.py:39-68)
ApiError(kind, message, code, details) ==
    Outcome(kind, message, code, details, NoInt, None, NoStatus)

\* RateLimitError(message, retry_after): code and details stay None
\* (client.py:53-58)
RateLimitError(message, retry_after) ==
    Outcome("RateLimitError", message, None, None, Some(retry_after), None, NoStatus)

\* tenacity's RetryError around the last attempt's exception
RetryError(cause) == Outcome("RetryError", NoMsg, None, None, NoInt, cause, NoStatus)

(***************************************************************************)
(* NapkinAPIClient._handle_error_response                                  *)
(***************************************************************************)
\* default of int(response.headers.get("Retry-After", "60")) (client.py:183)
DefaultRetryAfter == 60

\* dict.get(key) of the JSON error body: None when the key is missing
JsonGet(v) == IF v = Absent THEN None ELSE v

\* error_msg (client.py:169-177): the body's "error" or "Unknown error" for a
\* JSON object; otherwise (response.json() or .get raised) the response text,
\* or "HTTP <status> error" when the text is empty.
ErrorMessage(r) ==
    IF r.body.kind = "object"
    THEN Msg("{}", IF r.body.error = Absent THEN "Unknown error" ELSE r.body.error, 0)
    ELSE IF r.body.text # "" THEN Msg("{}", r.body.text, 0)
         ELSE Msg("HTTP {} error", "", r.status_code)

ErrorCode(r) == IF r.body.kind = "object" THEN JsonGet(r.body.code) ELSE None
ErrorDetails(r) == IF r.body.kind = "object" THEN JsonGet(r.body.details) ELSE None

\* _handle_error_response (client.py:167-188): the exception it raises
handle_error_response(r) ==
    IF r.status_code = HttpUnauthorized
    THEN ApiError("AuthenticationError", ErrorMessage(r), ErrorCode(r), ErrorDetails(r))
    ELSE IF r.status_code = HttpRateLimit
    THEN LET v == HeaderGet(r.headers, "Retry-After", <<"6", "0">>)
         IN  IF IntParses(v)
             THEN RateLimitError(ErrorMessage(r), PyInt(v))
             ELSE Raised("ValueError", Msg("invalid literal for int()", "", 0))
    ELSE IF r.status_code = HttpBadRequest
    THEN ApiError("RequestError", ErrorMessage(r), ErrorCode(r), ErrorDetails(r))
    ELSE ApiError("NapkinAPIError", ErrorMessage(r), ErrorCode(r), ErrorDetails(r))

(***************************************************************************)
(* NapkinAPIClient.get_status and wait_for_completion: pure parts          *)
(***************************************************************************)
\* isinstance(v, list)
IsList(v) == v.kind = "list"

\* [{"url": u} for u in raw_urls] (client.py:318)
UrlRecords(urls) == [k \in 1..Len(urls) |-> [url |-> urls[k].string]]

\* the candidate file list of get_status (client.py:307-318): NoList when
\* none of the three keys holds a list
CandidateFilesFirst(p) ==
    IF IsList(p.files) THEN SomeList(p.files.items)
    ELSE IF IsList(p.generated_files) THEN SomeList(p.generated_files.items)
    ELSE IF IsList(p.urls) THEN SomeList(UrlRecords(p.urls.items))
    ELSE NoList
Candidate(p) ==
    IF IsList(p.generated_files) THEN SomeList(p.generated_files.items)
    ELSE IF IsList(p.files) THEN SomeList(p.files.items)
    ELSE IF IsList(p.urls) THEN SomeList(UrlRecords(p.urls.items))
    ELSE NoList

\* files_ready and files_total of get_status (client.py:320-325)
FilesReady(p) ==
    IF Candidate(p) # NoList THEN Len(Candidate(p)[1]) ELSE PyOr(p.files_ready, 0)
FilesTotal(p) ==
    IF Candidate(p) # NoList THEN Len(Candidate(p)[1]) ELSE PyOr(p.files_total, 0)

\* the length of the request ids the callers pass
RequestIdLength == 12

\* the keyword arguments of StatusResponse(...) in get_status (client.py:327-335)
StatusKwargs(r) ==
    [request_id |-> RequestIdLength, status |-> r.body.status,
     progress |-> r.body.payload.progress,
     files_ready |-> FilesReady(r.body.payload),
     files_total |-> FilesTotal(r.body.payload)]

\* get_status on a response without error status (client.py:298-340):
\* response.json() raises ValueError on text that is not JSON, .get raises
\* AttributeError on an array, a missing "status" raises KeyError and an
\* unknown one ValueError, and StatusResponse(...) raises ValidationError;
\* otherwise the StatusResponse is returned, with the candidate list, when
\* there is one, assigned to its files.
get_status_result(r) ==
    IF r.body.kind = "text" THEN Raised("ValueError", Msg("not JSON", "", 0))
    ELSE IF r.body.kind = "array" THEN Raised("AttributeError", NoMsg)
    ELSE IF r.body.status = Absent THEN Raised("KeyError", Msg("{}", "status", 0))
    ELSE IF r.body.status \notin RequestStatuses
         THEN Raised("ValueError", Msg("not a valid RequestStatus", "", 0))
    ELSE IF ~StatusResponseOk(StatusKwargs(r))
         THEN Raised("ValidationError", NoMsg)
    ELSE Returned(StatusValue(r.body.status, JsonGet(r.body.error),
                              FilesReady(r.body.payload), FilesTotal(r.body.payload),
                              Candidate(r.body.payload)))

\* the terminal states of the poll loop (client.py:555)
TerminalWithoutExpired == {"completed", "failed"}
TerminalStatuses == {"completed", "failed", "expired"}

\* status.error or 'Unknown error' (client.py:558)
ErrorOrUnknown(error) == IF error = None \/ error = "" THEN "Unknown error" ELSE error

\* what wait_for_completion does with a terminal status (client.py:555-562)
terminal_outcome(st) ==
    IF st.status = "failed"
    THEN Raised("ProcessingError",
                Msg("Visual generation failed: {}", ErrorOrUnknown(st.error), 0))
    ELSE IF st.status = "expired"
    THEN Raised("ProcessingError", Msg("Request expired", "", 0))
    ELSE Returned(st)

\* `while attempts < max_attempts` (client.py:547)
LoopContinuesInclusive(n, max) == n <= max
LoopContinues(n, max) == n < max

\* raise ProcessingError(f"Timeout after {max_attempts} attempts") (client.py:573)
timeout_outcome(max) == Raised("ProcessingError", Msg("Timeout after {} attempts", "", max))

(***************************************************************************)
(* NapkinAPIClient._make_request under tenacity's @retry                   *)
(***************************************************************************)
\* stop_after_attempt(3) (client.py:192)
StopAfterAttempt == 3

\* what self.client.request raises on a transport failure
TransportErrors == {"ConnectError", "ReadTimeout"}

\* retry_if_exception_type(httpx.HTTPError) (client.py:191): the transport
\* errors are httpx.HTTPError subclasses, the client's own errors are not.
Retryable(kind) == kind \in TransportErrors

\* the calls that go through _make_request
RequestCallers == {"create_visual", "get_status", "download_file_by_id"}

ClientIdle ==
    /\ op = "none"
    /\ pc = "idle"
    /\ tries = 0
    /\ resp = <<>>
    /\ outcome = Pending
    /\ rate_limit_info = NoInfo
    /\ lastHeaderInfo = <<>>
    /\ max_attempts = 0
    /\ attempts = 0
    /\ polls = 0
    /\ pollsReturned = 0
    /\ pollsNonTerminal = 0

\* get_rate_limit_status (client.py:575-582)
get_rate_limit_status == rate_limit_info

\* create_visual, get_status or download_file_by_id is called and reaches
\* `await self.client.request` of _make_request (client.py:196-207).
Call(o) ==
    /\ pc = "idle"
    /\ op' = o
    /\ pc' = "request"
    /\ tries' = 0
    /\ resp' = <<>>
    /\ outcome' = Pending
    /\ max_attempts' = 0
    /\ attempts' = 0
    /\ polls' = 0
    /\ pollsReturned' = 0
    /\ pollsNonTerminal' = 0
    /\ UNCHANGED <<rate_limit_info, lastHeaderInfo>>

\* wait_for_completion is called: max_attempts or settings.max_poll_attempts
\* is the budget, attempts starts at 0 (client.py:541-545).
WaitCall(arg, settings_max) ==
    /\ pc = "idle"
    /\ op' = "wait_for_completion"
    /\ pc' = "wait_loop"
    /\ max_attempts' = PyOr(arg, settings_max)
    /\ attempts' = 0
    /\ tries' = 0
    /\ resp' = <<>>
    /\ outcome' = Pending
    /\ polls' = 0
    /\ pollsReturned' = 0
    /\ pollsNonTerminal' = 0
    /\ UNCHANGED <<rate_limit_info, lastHeaderInfo>>

\* the head of the poll loop: the next get_status call is issued, or the
\* budget is used up and the timeout is raised (client.py:547-549, 573).
WaitLoop ==
    /\ pc = "wait_loop"
    /\ IF LoopContinues(attempts, max_attempts)
       THEN /\ polls' = polls + 1
            /\ tries' = 0
            /\ pc' = "request"
            /\ outcome' = outcome
       ELSE /\ outcome' = timeout_outcome(max_attempts)
            /\ pc' = "idle"
            /\ UNCHANGED <<polls, tries>>
    /\ UNCHANGED <<op, resp, rate_limit_info, lastHeaderInfo, max_attempts, attempts,
                   pollsReturned, pollsNonTerminal>>

\* An attempt of _make_request raised `err`: tenacity retries it when it is
\* retryable and fewer than StopAfterAttempt attempts were made, raises
\* RetryError when the attempts are used up, and lets any other exception
\* through. The exception ends the calling operation (client.py:190-195).
AttemptRaised(err) ==
    IF Retryable(err.kind)
    THEN IF tries + 1 >= StopAfterAttempt
         THEN /\ outcome' = RetryError(err.kind)
              /\ pc' = "idle"
         ELSE /\ outcome' = outcome
              /\ pc' = "request"
    ELSE /\ outcome' = err
         /\ pc' = "idle"

\* self.client.request raises a transport error (client.py:207)
TransportFailure(e) ==
    /\ pc = "request"
    /\ tries' = tries + 1
    /\ AttemptRaised(Raised(e, NoMsg))
    /\ UNCHANGED <<op, resp, rate_limit_info, lastHeaderInfo, max_attempts, attempts,
                   polls, pollsReturned, pollsNonTerminal>>

\* self.client.request returns response r: the rate-limit slot is
\* overwritten with what the response's headers give, an error status is
\* turned into an exception, and otherwise the calling operation goes on with
\* the response (client.py:207-216; get_status 295-340; wait_for_completion
\* 549-571).
ResponseArrives(r) ==
    /\ pc = "request"
    /\ tries' = tries + 1
    /\ resp' = <<r>>
    /\ rate_limit_info' = extract_rate_limit_info(r.headers, r.now)
    /\ lastHeaderInfo' = IF CarriesRateLimitHeaders(r.headers)
                         THEN <<[headers |-> r.headers, now |-> r.now]>>
                         ELSE lastHeaderInfo
    /\ IF r.status_code >= ErrorThreshold
       THEN /\ AttemptRaised(handle_error_response(r))
            /\ UNCHANGED <<attempts, pollsReturned, pollsNonTerminal>>
       ELSE IF op # "wait_for_completion"
       THEN /\ outcome' = IF op = "get_status" THEN get_status_result(r)
                          ELSE Returned(NoStatus)
            /\ pc' = "idle"
            /\ UNCHANGED <<attempts, pollsReturned, pollsNonTerminal>>
       ELSE LET got == get_status_result(r)
            IN  IF got.kind # "ok"
                THEN /\ outcome' = got
                     /\ pc' = "idle"
                     /\ UNCHANGED <<attempts, pollsReturned, pollsNonTerminal>>
                ELSE IF got.value.status \in TerminalStatuses
                THEN /\ outcome' = terminal_outcome(got.value)
                     /\ pc' = "idle"
                     /\ pollsReturned' = pollsReturned + 1
                     /\ UNCHANGED <<attempts, pollsNonTerminal>>
                ELSE /\ outcome' = outcome
                     /\ pc' = "wait_loop"
                     /\ attempts' = attempts + 1
                     /\ pollsReturned' = pollsReturned + 1
                     /\ pollsNonTerminal' = pollsNonTerminal + 1
    /\ UNCHANGED <<op, max_attempts, polls>>

\* the optional max_attempts arguments tried
BudgetArgs == {NoInt} \cup {Some(n) : n \in 0..MaxPolls}

(***************************************************************************)
(* Scoped sessions: async with NapkinAPIClient(...) and                    *)
(* async with VisualGenerator(...)                                         *)
(***************************************************************************)
Sessions == 1..MaxSessions

SessionKinds == {"client", "generator"}

\* how the body of an `async with` block ends: it returns, an exception
\* leaves it, or its task is cancelled at an await
ExitPaths == {"return", "raise", "cancel"}

SessionIdle ==
    /\ skind = [s \in Sessions |-> "client"]
    /\ spc = [s \in Sessions |-> "new"]
    /\ sexit = [s \in Sessions |-> "none"]
    /\ owns_client = [s \in Sessions |-> FALSE]
    /\ pool = [s \in Sessions |-> "none"]
    /\ closes = [s \in Sessions |-> 0]

\* __aexit__ (client.py:105-107, generator.py:42-45) runs on every way out of
\* the block and calls close() whatever exc_type is.
ClosesOnCleanExitOnly(how) == how = "return"
ClosesOnExit(how) == how \in ExitPaths

\* The scope is entered. For a client, __init__ builds the pool it owns and
\* __aenter__ returns self (client.py:74-103); for a generator, __aenter__
\* builds the client, and with it the pool, and enters it (generator.py:36-40).
SessionEnter(s, kind) ==
    /\ spc[s] = "new"
    /\ skind' = [skind EXCEPT ![s] = kind]
    /\ spc' = [spc EXCEPT ![s] = "body"]
    /\ owns_client' = [owns_client EXCEPT ![s] = TRUE]
    /\ pool' = [pool EXCEPT ![s] = "open"]
    /\ UNCHANGED <<sexit, closes>>

\* the body of the scope ends
BodyEnds(s, how) ==
    /\ spc[s] = "body"
    /\ spc' = [spc EXCEPT ![s] = "exiting"]
    /\ sexit' = [sexit EXCEPT ![s] = how]
    /\ UNCHANGED <<skind, owns_client, pool, closes>>

\* __aexit__: the generator's forwards to its client's when it has one
\* (generator.py:42-45), the client's awaits close(), which closes the pool
\* when the client owns it (client.py:105-113).
SessionExit(s) ==
    /\ spc[s] = "exiting"
    /\ spc' = [spc EXCEPT ![s] = "exited"]
    /\ IF ClosesOnExit(sexit[s]) /\ pool[s] # "none" /\ owns_client[s]
       THEN /\ pool' = [pool EXCEPT ![s] = "closed"]
            /\ closes' = [closes EXCEPT ![s] = closes[s] + 1]
       ELSE UNCHANGED <<pool, closes>>
    /\ UNCHANGED <<skind, sexit, owns_client>>

(***************************************************************************)
(* The settings singleton: get_settings and reload_settings                *)
(***************************************************************************)
\* What Settings() reads from the environment: "unset" lacks the required
\* NAPKIN_API_TOKEN, so that Settings() raises ValidationError; the others
\* are two configurations that validate.
EnvValues == {"unset", "test-token", "new-token"}

\* _settings = None
NoInstance == 0

\* a call that raised returned no instance
NoFields == "none"

SettingsIdle ==
    /\ environ = "unset"
    /\ _settings = NoInstance
    /\ heap = <<>>
    /\ calls = <<>>

SettingsInit ==
    /\ environ \in EnvValues
    /\ _settings = NoInstance
    /\ heap = <<>>
    /\ calls = <<>>

\* Settings() validates the environment (config.py:272-276)
SettingsValidates(env) == env # "unset"

\* `if _settings is None` of get_settings (config.py:301)
NeedsBuildAlways(s) == TRUE
NeedsBuild(s) == s = NoInstance

\* one call of the history: the function, the instance it returned
\* (NoInstance when it raised) and the fields that instance had on return
CallRecord(fn, ret, fields) == [fn |-> fn, ret |-> ret, fields |-> fields]

\* the environment changes between two calls (patch.dict, an edited .env)
EnvChanges(env) ==
    /\ Len(calls) < MaxCalls
    /\ env # environ
    /\ environ' = env
    /\ UNCHANGED <<_settings, heap, calls>>

\* get_settings() (config.py:283-303): builds the instance when the global
\* is None, and returns the global; a ValidationError of _build_settings
\* leaves the global as it was.
get_settings ==
    /\ Len(calls) < MaxCalls
    /\ IF NeedsBuild(_settings)
       THEN IF SettingsValidates(environ)
            THEN /\ heap' = Append(heap, environ)
                 /\ _settings' = Len(heap) + 1
                 /\ calls' = Append(calls, CallRecord("get_settings", Len(heap) + 1, environ))
            ELSE /\ calls' = Append(calls, CallRecord("get_settings", NoInstance, NoFields))
                 /\ UNCHANGED <<heap, _settings>>
       ELSE /\ calls' = Append(calls, CallRecord("get_settings", _settings, heap[_settings]))
            /\ UNCHANGED <<heap, _settings>>
    /\ UNCHANGED environ

\* reload_settings() (config.py:306-322): always builds, stores and returns
\* a new instance; a ValidationError leaves the global as it was.
reload_settingsClearingFirst ==
    /\ Len(calls) < MaxCalls
    /\ IF SettingsValidates(environ)
       THEN /\ heap' = Append(heap, environ)
            /\ _settings' = Len(heap) + 1
            /\ calls' = Append(calls, CallRecord("reload_settings", Len(heap) + 1, environ))
       ELSE /\ calls' = Append(calls, CallRecord("reload_settings", NoInstance, NoFields))
            /\ _settings' = NoInstance
            /\ UNCHANGED heap
    /\ UNCHANGED environ

reload_settings ==
    /\ Len(calls) < MaxCalls
    /\ IF SettingsValidates(environ)
       THEN /\ heap' = Append(heap, environ)
            /\ _settings' = Len(heap) + 1
            /\ calls' = Append(calls, CallRecord("reload_settings", Len(heap) + 1, environ))
       ELSE /\ calls' = Append(calls, CallRecord("reload_settings", NoInstance, NoFields))
            /\ UNCHANGED <<heap, _settings>>
    /\ UNCHANGED environ

(***************************************************************************)
(* The style catalog and get_style_by_name                                 *)
(***************************************************************************)
\* STYLES (constants.py:47-147): slug, provider id and display name of each
\* built-in style, in the order of the dict; a string is the sequence of its
\* characters
StyleCatalog == <<
    [slug |-> <<"v", "i", "b", "r", "a", "n", "t", "-", "s", "t", "r", "o",
        "k", "e", "s">>,
     id |-> <<"C", "D", "Q", "P", "R", "V", "V", "J", "C", "S", "T", "P",
        "R", "B", "B", "C", "D", "5", "Q", "6", "A", "W", "R">>,
     name |-> <<"V", "i", "b", "r", "a", "n", "t", " ", "S", "t", "r", "o",
        "k", "e", "s">>],
    [slug |-> <<"g", "l", "o", "w", "f", "u", "l", "-", "b", "r", "e", "e",
        "z", "e">>,
     id |-> <<"C", "D", "Q", "P", "R", "V", "V", "J", "C", "S", "T", "P",
        "R", "B", "B", "K", "D", "X", "K", "7", "8">>,
     name |-> <<"G", "l", "o", "w", "f", "u", "l", " ", "B", "r", "e", "e",
        "z", "e">>],
    [slug |-> <<"b", "o", "l", "d", "-", "c", "a", "n", "v", "a", "s">>,
     id |-> <<"C", "D", "Q", "P", "R", "V", "V", "J", "C", "S", "T", "P",
        "R", "B", "B", "6", "D", "H", "G", "Q", "8">>,
     name |-> <<"B", "o", "l", "d", " ", "C", "a", "n", "v", "a", "s">>],
    [slug |-> <<"r", "a", "d", "i", "a", "n", "t", "-", "b", "l", "o", "c",
        "k", "s">>,
     id |-> <<"C", "D", "Q", "P", "R", "V", "V", "J", "C", "S", "T", "P",
        "R", "B", "B", "6", "D", "5", "P", "6", "R", "S", "B", "4">>,
     name |-> <<"R", "a", "d", "i", "a", "n", "t", " ", "B", "l", "o", "c",
        "k", "s">>],
    [slug |-> <<"p", "r", "a", "g", "m", "a", "t", "i", "c", "-", "s", "h",
        "a", "d", "e", "s">>,
     id |-> <<"C", "D", "Q", "P", "R", "V", "V", "J", "C", "S", "T", "P",
        "R", "B", "B", "7", "E", "9", "G", "P", "8", "T", "B", "5", "D", "S",
        "T", "0">>,
     name |-> <<"P", "r", "a", "g", "m", "a", "t", "i", "c", " ", "S", "h",
        "a", "d", "e", "s">>],
    [slug |-> <<"c", "a", "r", "e", "f", "r", "e", "e", "-", "m", "i", "s",
        "t">>,
     id |-> <<"C", "D", "G", "Q", "6", "X", "B", "1", "D", "G", "P", "Q",
        "6", "V", "V", "6", "E", "G">>,
     name |-> <<"C", "a", "r", "e", "f", "r", "e", "e", " ", "M", "i", "s",
        "t">>],
    [slug |-> <<"l", "i", "v", "e", "l", "y", "-", "l", "a", "y", "e", "r",
        "s">>,
     id |-> <<"C", "D", "G", "Q", "6", "X", "B", "1", "D", "G", "P", "P",
        "C", "T", "B", "C", "D", "H", "J", "P", "8">>,
     name |-> <<"L", "i", "v", "e", "l", "y", " ", "L", "a", "y", "e", "r",
        "s">>],
    [slug |-> <<"a", "r", "t", "i", "s", "t", "i", "c", "-", "f", "l", "a",
        "i", "r">>,
     id |-> <<"D", "1", "G", "P", "W", "S", "1", "D", "C", "D", "Q", "P",
        "R", "V", "V", "J", "C", "S", "T", "P", "R">>,
     name |-> <<"A", "r", "t", "i", "s", "t", "i", "c", " ", "F", "l", "a",
        "i", "r">>],
    [slug |-> <<"s", "k", "e", "t", "c", "h", "-", "n", "o", "t", "e", "s">>,
     id |-> <<"D", "1", "G", "P", "W", "S", "1", "D", "D", "H", "M", "P",
        "W", "S", "B", "K">>,
     name |-> <<"S", "k", "e", "t", "c", "h", " ", "N", "o", "t", "e", "s">>],
    [slug |-> <<"e", "l", "e", "g", "a", "n", "t", "-", "o", "u", "t", "l",
        "i", "n", "e">>,
     id |-> <<"C", "S", "Q", "Q", "4", "V", "B", "1", "D", "G", "P", "P",
        "4", "V", "3", "1", "C", "D", "N", "J", "T", "V", "K", "F", "B", "X",
        "K", "6", "J", "V", "3", "C">>,
     name |-> <<"E", "l", "e", "g", "a", "n", "t", " ", "O", "u", "t", "l",
        "i", "n", "e">>],
    [slug |-> <<"s", "u", "b", "t", "l", "e", "-", "a", "c", "c", "e", "n",
        "t">>,
     id |-> <<"C", "S", "Q", "Q", "4", "V", "B", "1", "D", "G", "P", "P",
        "R", "T", "B", "7", "D", "1", "T", "0">>,
     name |-> <<"S", "u", "b", "t", "l", "e", " ", "A", "c", "c", "e", "n",
        "t">>],
    [slug |-> <<"m", "o", "n", "o", "c", "h", "r", "o", "m", "e", "-", "p",
        "r", "o">>,
     id |-> <<"C", "S", "Q", "Q", "4", "V", "B", "1", "D", "G", "P", "Q",
        "6", "T", "B", "E", "C", "X", "P", "6", "A", "B", "B", "3", "D", "X",
        "P", "6", "Y", "W", "G">>,
     name |-> <<"M", "o", "n", "o", "c", "h", "r", "o", "m", "e", " ", "P",
        "r", "o">>],
    [slug |-> <<"c", "o", "r", "p", "o", "r", "a", "t", "e", "-", "c", "l",
        "e", "a", "n">>,
     id |-> <<"C", "S", "Q", "Q", "4", "V", "B", "1", "D", "G", "P", "P",
        "T", "V", "V", "E", "D", "X", "H", "P", "G", "W", "K", "F", "D", "N",
        "J", "J", "T", "S", "K", "C", "C", "5", "T", "0">>,
     name |-> <<"C", "o", "r", "p", "o", "r", "a", "t", "e", " ", "C", "l",
        "e", "a", "n">>],
    [slug |-> <<"m", "i", "n", "i", "m", "a", "l", "-", "c", "o", "n", "t",
        "r", "a", "s", "t">>,
     id |-> <<"D", "N", "Q", "P", "W", "V", "V", "3", "D", "1", "S", "6",
        "Y", "V", "B", "5", "5", "N", "K", "6", "R", "R", "B", "M">>,
     name |-> <<"M", "i", "n", "i", "m", "a", "l", " ", "C", "o", "n", "t",
        "r", "a", "s", "t">>],
    [slug |-> <<"s", "i", "l", "v", "e", "r", "-", "b", "e", "a", "m">>,
     id |-> <<"C", "X", "S", "6", "2", "Y", "9", "D", "C", "S", "Q", "P",
        "6", "X", "B", "K">>,
     name |-> <<"S", "i", "l", "v", "e", "r", " ", "B", "e", "a", "m">>]
  >>

\* the characters that occur, in code point order
UpperCase == <<"A", "B", "C", "D", "E", "F", "G", "H", "I", "J", "K", "L", "M">> \o
             <<"N", "O", "P", "Q", "R", "S", "T", "U", "V", "W", "X", "Y", "Z">>
LowerCase == <<"a", "b", "c", "d", "e", "f", "g", "h", "i", "j", "k", "l", "m">> \o
             <<"n", "o", "p", "q", "r", "s", "t", "u", "v", "w", "x", "y", "z">>
CodePoints == <<" ", "'", ",", "-", ".">> \o
              <<"0", "1", "2", "3", "4", "5", "6", "7", "8", "9", ":">> \o
              UpperCase \o LowerCase

Ord(c) == CHOOSE i \in DOMAIN CodePoints : CodePoints[i] = c

\* str.lower() and str.upper(), character by character
LowerChar(c) ==
    IF \E i \in DOMAIN UpperCase : UpperCase[i] = c
    THEN LowerCase[CHOOSE i \in DOMAIN UpperCase : UpperCase[i] = c]
    ELSE c
UpperChar(c) ==
    IF \E i \in DOMAIN LowerCase : LowerCase[i] = c
    THEN UpperCase[CHOOSE i \in DOMAIN LowerCase : LowerCase[i] = c]
    ELSE c
str_lower(t) == [i \in 1..Len(t) |-> LowerChar(t[i])]
str_upper(t) == [i \in 1..Len(t) |-> UpperChar(t[i])]

\* str.strip(): leading and trailing blanks removed
RECURSIVE str_lstrip(_)
str_lstrip(t) == IF t # <<>> /\ Head(t) = " " THEN str_lstrip(Tail(t)) ELSE t
RECURSIVE str_rstrip(_)
str_rstrip(t) ==
    IF t # <<>> /\ t[Len(t)] = " " THEN str_rstrip(SubSeq(t, 1, Len(t) - 1)) ELSE t
str_strip(t) == str_rstrip(str_lstrip(t))

\* str.replace(old, new) for single characters
str_replace(t, old, new) == [i \in 1..Len(t) |-> IF t[i] = old THEN new ELSE t[i]]

\* repr() of a string without quotes or escapes in it
str_repr(t) == <<"'">> \o t \o <<"'">>

\* sep.join(parts)
RECURSIVE str_join(_, _)
str_join(sep, parts) ==
    IF parts = <<>> THEN <<>>
    ELSE IF Len(parts) = 1 THEN parts[1]
    ELSE parts[1] \o sep \o str_join(sep, Tail(parts))

\* a < b for strings: by code point, a proper prefix first
RECURSIVE str_less(_, _)
str_less(a, b) ==
    IF b = <<>> THEN FALSE
    ELSE IF a = <<>> THEN TRUE
    ELSE IF Head(a) # Head(b) THEN Ord(Head(a)) < Ord(Head(b))
    ELSE str_less(Tail(a), Tail(b))

\* sorted(S) for a set of distinct strings
RECURSIVE sorted(_)
sorted(S) ==
    IF S = {} THEN <<>>
    ELSE LET least == CHOOSE x \in S : \A y \in S : x = y \/ str_less(x, y)
         IN  <<least>> \o sorted(S \ {least})

\* needle in hay
Contains(hay, needle) ==
    \E i \in 0..(Len(hay) - Len(needle)) : SubSeq(hay, i + 1, i + Len(needle)) = needle

\* STYLES.keys(), `slug in STYLES`, STYLES[slug], STYLES.values()
StyleKeys == {StyleCatalog[i].slug : i \in DOMAIN StyleCatalog}
StyleIds == {StyleCatalog[i].id : i \in DOMAIN StyleCatalog}
STYLES(slug) == StyleCatalog[CHOOSE i \in DOMAIN StyleCatalog : StyleCatalog[i].slug = slug]

\* the fixed texts of the error message (constants.py:248-249)
NotFoundPrefix == <<"S", "t", "y", "l", "e", " ", "n", "o", "t", " ", "f", "o", "u", "n",
                    "d", ":", " ">>
ValidOptions == <<".", " ", "V", "a", "l", "i", "d", " ", "o", "p", "t", "i", "o", "n",
                  "s", ":", " ">>
CommaSpace == <<",", " ">>

\* what the message enumerates after "Valid options: " (constants.py:248)
ListedIds == str_join(CommaSpace, sorted(StyleIds))
ListedOptions == str_join(CommaSpace, sorted(StyleKeys))

NotFoundMessage(n) == NotFoundPrefix \o str_repr(n) \o ValidOptions \o ListedOptions

\* the slug get_style_by_name derives from the name (constants.py:237)
SlugOf(n) == str_replace(str_lower(str_strip(n)), " ", "-")

\* the styles whose name matches, ignoring case (constants.py:242-244)
NameMatches(n) ==
    {i \in DOMAIN StyleCatalog : str_lower(StyleCatalog[i].name) = str_lower(str_strip(n))}

StyleReturned(style) == [kind |-> "returned", style |-> style, message |-> <<>>]
StyleRaised(msg) ==
    [kind |-> "ValueError", style |-> [slug |-> <<>>, id |-> <<>>, name |-> <<>>],
     message |-> msg]
StylePending == [kind |-> "pending", style |-> [slug |-> <<>>, id |-> <<>>, name |-> <<>>],
                 message |-> <<>>]

\* get_style_by_name(n) (constants.py:224-249)
get_style_by_name(n) ==
    IF SlugOf(n) \in StyleKeys THEN StyleReturned(STYLES(SlugOf(n)))
    ELSE IF NameMatches(n) # {}
         THEN StyleReturned(StyleCatalog[CHOOSE i \in NameMatches(n) :
                                            \A j \in NameMatches(n) : i <= j])
         ELSE StyleRaised(NotFoundMessage(n))

\* the names tried: of every style the slug, the display name as written, in
\* upper and in lower case and padded with blanks, the slug in upper case,
\* and the provider id (what a caller passes for a custom style,
\* generator.py:89-96); and names of no style
DoesNotExist == <<"d", "o", "e", "s", "-", "n", "o", "t", "-", "e", "x", "i", "s", "t">>
NamesOf(st) == {st.slug, str_upper(st.slug), st.name, str_upper(st.name),
                str_lower(st.name), <<" ">> \o st.name \o <<" ">>, st.id}
StyleNames ==
    UNION {NamesOf(StyleCatalog[i]) : i \in DOMAIN StyleCatalog}
        \cup {DoesNotExist, <<>>, <<"s", "k", "e", "t", "c", "h">>}

StyleIdle ==
    /\ style_name = <<>>
    /\ styleOutcome = StylePending

StyleInit ==
    /\ style_name \in StyleNames
    /\ styleOutcome = StylePending

LookUpStyle ==
    /\ styleOutcome.kind = "pending"
    /\ styleOutcome' = get_style_by_name(style_name)
    /\ UNCHANGED style_name

(***************************************************************************)
(* VisualGenerator.generate                                                *)
(***************************************************************************)
\* what wait_for_completion can return: the StatusResponse get_status builds
\* from a completed payload
FinalStatuses ==
    { get_status_result(Response(200, NoHeaders, b, 50)).value :
         b \in {x \in StatusBodies :
                  /\ x.kind = "object" /\ x.status = "completed"
                  /\ get_status_result(Response(200, NoHeaders, x, 50)).kind = "ok"} }

\* what create_visual and wait_for_completion can raise
ClientErrors == {"AuthenticationError", "RateLimitError", "RequestError", "NapkinAPIError",
                 "RetryError", "ValueError", "ValidationError", "ProcessingError"}

\* What can go wrong while one file is downloaded and written: the error
\* _handle_error_response raises for a status >= 400, a transport error of
\* httpx (downloads are not retried), an OSError of the write.
DownloadErrors == {"AuthenticationError", "RateLimitError", "RequestError",
                   "NapkinAPIError", "ValueError", "ConnectError", "ReadTimeout", "OSError"}

\* `except Exception` around the download of one file (generator.py:269, 287)
CatchesDownloadApiErrorsOnly(e) ==
    e \in {"AuthenticationError", "RateLimitError", "RequestError", "NapkinAPIError"}
CatchesDownload(e) == e \in DownloadErrors

\* files = getattr(final_status, "files", []) or [] (generator.py:228)
FilesOf(st) == IF st.files = NoList THEN <<>> ELSE st.files[1]

\* how many downloads the loops make: one per file, or one per sequential
\* id up to files_ready when there is no file metadata (generator.py:241, 273)
FilesToDownload(st) == IF FilesOf(st) # <<>> THEN Len(FilesOf(st)) ELSE st.files_ready

\* file_info.get("url") is truthy: the file is fetched from its URL,
\* otherwise from the file endpoint by id (generator.py:255-268, 280-284)
DownloadVia(st, i) ==
    IF FilesOf(st) = <<>> THEN "id"
    ELSE IF "url" \in DOMAIN FilesOf(st)[i] /\ FilesOf(st)[i].url # Absent THEN "url"
    ELSE "id"

\* file_path of the i-th file: _generate_filename numbers the files by
\* their position (generator.py:119-141, 250-253)
FilePath(i) == [position |-> i]

\* the result of generate
GenerateResult(kind, status, paths) == [kind |-> kind, status |-> status, paths |-> paths]
NotGenerated == GenerateResult("pending", NoStatus, <<>>)

\* one download as the loop saw it
DownloadRecord(via, result) == [via |-> via, result |-> result]

GenerateIdle ==
    /\ gpc = "idle"
    /\ save_files = FALSE
    /\ final_status = NoStatus
    /\ file_index = 0
    /\ saved_paths = <<>>
    /\ downloads = <<>>
    /\ generated = NotGenerated
    /\ api_called = FALSE

\* generate raises e
GenerateAborts(e) ==
    /\ gpc' = "raised"
    /\ generated' = GenerateResult(e, NoStatus, <<>>)

\* generate(content, ..., save_files=save) is called inside the generator's
\* scope (generator.py:183-184)
GenerateCall(save) ==
    /\ gpc = "idle"
    /\ gpc' = "prepare"
    /\ save_files' = save
    /\ UNCHANGED <<final_status, file_index, saved_paths, downloads, generated, api_called>>

\* _prepare_request builds the VisualRequest or raises ValidationError
\* (generator.py:187-199)
PrepareRequest(kw) ==
    /\ gpc = "prepare"
    /\ IF VisualRequestOk(kw)
       THEN gpc' = "create" /\ UNCHANGED generated
       ELSE GenerateAborts("ValidationError")
    /\ UNCHANGED <<save_files, final_status, file_index, saved_paths, downloads, api_called>>

\* create_visual returns (generator.py:205-206); the client has sent a
\* request to the API
CreateReturns ==
    /\ gpc = "create"
    /\ gpc' = "wait"
    /\ api_called' = TRUE
    /\ UNCHANGED <<save_files, final_status, file_index, saved_paths, downloads, generated>>

\* create_visual or wait_for_completion raises, having tried a request
\* (generator.py:205, 211)
ClientRaises(e) ==
    /\ gpc \in {"create", "wait"}
    /\ GenerateAborts(e)
    /\ api_called' = TRUE
    /\ UNCHANGED <<save_files, final_status, file_index, saved_paths, downloads>>

\* wait_for_completion returns st: a status other than completed is turned
\* into a ProcessingError; with save_files and files ready the output
\* directory is made next, otherwise generate returns (generator.py:211-226, 289)
WaitReturnsIgnoringSaveFiles(st) ==
    /\ gpc = "wait"
    /\ final_status' = st
    /\ IF st.status # "completed"
       THEN GenerateAborts("ProcessingError")
       ELSE IF st.files_ready > 0
       THEN gpc' = "mkdir" /\ UNCHANGED generated
       ELSE /\ gpc' = "returned"
            /\ generated' = GenerateResult("ok", st, saved_paths)
    /\ UNCHANGED <<save_files, file_index, saved_paths, downloads, api_called>>

WaitReturns(st) ==
    /\ gpc = "wait"
    /\ final_status' = st
    /\ IF st.status # "completed"
       THEN GenerateAborts("ProcessingError")
       ELSE IF save_files /\ st.files_ready > 0
       THEN gpc' = "mkdir" /\ UNCHANGED generated
       ELSE /\ gpc' = "returned"
            /\ generated' = GenerateResult("ok", st, saved_paths)
    /\ UNCHANGED <<save_files, file_index, saved_paths, downloads, api_called>>

\* output_dir.mkdir(parents=True, exist_ok=True) (generator.py:223-225)
MakeOutputDir(ok) ==
    /\ gpc = "mkdir"
    /\ IF ok
       THEN gpc' = "download" /\ UNCHANGED generated
       ELSE GenerateAborts("OSError")
    /\ UNCHANGED <<save_files, final_status, file_index, saved_paths, downloads, api_called>>

\* One turn of the download loop: the next file is downloaded and its path
\* appended, or the download raises and the error is logged; an exception
\* the handler does not catch leaves generate (generator.py:241-270, 273-288).
DownloadFile(result) ==
    /\ gpc = "download"
    /\ file_index < FilesToDownload(final_status)
    /\ LET i == file_index + 1
       IN  /\ downloads' = Append(downloads, DownloadRecord(DownloadVia(final_status, i), result))
           /\ file_index' = i
           /\ IF result = "ok"
              THEN /\ saved_paths' = Append(saved_paths, FilePath(i))
                   /\ UNCHANGED <<gpc, generated>>
              ELSE IF CatchesDownload(result)
              THEN UNCHANGED <<saved_paths, gpc, generated>>
              ELSE /\ GenerateAborts(result)
                   /\ UNCHANGED saved_paths
    /\ UNCHANGED <<save_files, final_status, api_called>>

\* the loop is over: return final_status, saved_paths (generator.py:289)
GenerateReturn ==
    /\ gpc = "download"
    /\ file_index >= FilesToDownload(final_status)
    /\ gpc' = "returned"
    /\ generated' = GenerateResult("ok", final_status, saved_paths)
    /\ UNCHANGED <<save_files, final_status, file_index, saved_paths, downloads, api_called>>

\* the arguments of generate that reach VisualRequest
GenerateRequests ==
    { [content |-> 4, format |-> "svg", width |-> NoInt, height |-> NoInt],
      [content |-> 4, format |-> "png", width |-> Some(1024), height |-> Some(768)],
      [content |-> 4, format |-> "svg", width |-> Some(1024), height |-> NoInt],
      [content |-> 0, format |-> "svg", width |-> NoInt, height |-> NoInt] }

(***************************************************************************)
(* The CLI: napkin generate                                                *)
(***************************************************************************)
\* exit statuses: a command that returns, typer.Exit(1), and the usage
\* error click raises for an option outside its min/max
ExitSuccess == 0
ExitFailure == 1
ExitUsage == 2

\* the --format values tried; <<>> stands for an option that is not given
Svg == <<"s", "v", "g">>
Png == <<"p", "n", "g">>
FormatOptions == {<<>>, Svg, Png, <<"P", "N", "G">>, <<"g", "i", "f">>}

\* the --width values tried (min=100, max=4096)
WidthOptions == {NoInt, Some(50), Some(1024)}
WidthParses(w) == w = NoInt \/ (w[1] >= PngDimMin /\ w[1] <= PngDimMax)

\* `format and format.lower() not in ["svg", "png"]` (commands.py:152)
FormatRejected(f) == f # <<>> /\ str_lower(f) \notin {Svg, Png}

\* the format generate hands to VisualRequest: format or
\* settings.default_format (generator.py:81), as the string the enum is
\* built from; OutputFormat accepts "svg" and "png" only
RequestFormat(f) ==
    IF f = <<>> \/ f = Svg THEN "svg"
    ELSE IF f = Png THEN "png"
    ELSE "other"

\* the arguments the command passes on to VisualRequest
CliRequest ==
    [content |-> 4, format |-> RequestFormat(cli_format), width |-> cli_width,
     height |-> NoInt]

\* `if file_paths:` (commands.py:194)
HasFilesAlways(paths) == TRUE
HasFiles(paths) == paths # <<>>

\* which except clause takes an exception of generate_visual
\* (commands.py:201-218); ProcessingError and RequestError are NapkinAPIErrors
ErrorShownFor(kind) ==
    IF kind = "AuthenticationError" THEN "Authentication failed"
    ELSE IF kind = "RateLimitError" THEN "Rate limit exceeded"
    ELSE IF kind \in {"NapkinAPIError", "RequestError", "ProcessingError"} THEN "API error"
    ELSE IF cli_debug THEN "print_exception"
    ELSE "Unexpected error"

\* `raise typer.Exit(1)` inside the try block: Exit is a RuntimeError, so
\* `except Exception` takes it, reports it as unexpected and raises
\* typer.Exit(1) again (commands.py:154, 199, 212-218)
ShownForExitInTry(message) ==
    <<message, IF cli_debug THEN "print_exception" ELSE "Unexpected error">>

CliIdle ==
    /\ cpc = "shell"
    /\ cli_format = <<>>
    /\ cli_width = NoInt
    /\ cli_debug = FALSE
    /\ shown = <<>>
    /\ exit_code = NoInt

\* the process ends with a status
CliExits(code, messages) ==
    /\ cpc' = "exited"
    /\ exit_code' = Some(code)
    /\ shown' = shown \o messages

\* `napkin generate CONTENT [--format f] [--width w] [--debug]`: click parses
\* the options and ends the process with a usage error when one is out of
\* range (commands.py:99-114)
CliInvoke(f, w, debug) ==
    /\ cpc = "shell"
    /\ cli_format' = f
    /\ cli_width' = w
    /\ cli_debug' = debug
    /\ IF WidthParses(w)
       THEN /\ cpc' = "settings"
            /\ UNCHANGED <<shown, exit_code>>
       ELSE CliExits(ExitUsage, <<"usage">>)
    /\ UNCHANGED generateVars

\* settings = get_settings() (commands.py:149): it returns, or it raises
\* ValidationError, which `except Exception` takes
CliLoadSettings(ok) ==
    /\ cpc = "settings"
    /\ IF ok
       THEN /\ cpc' = "format"
            /\ UNCHANGED <<shown, exit_code>>
       ELSE CliExits(ExitFailure, <<ErrorShownFor("ValidationError")>>)
    /\ UNCHANGED <<cli_format, cli_width, cli_debug, generateVars>>

\* the format check, and the call of generate_visual, which enters the
\* generator's scope and calls generate with save_files left at True
\* (commands.py:152-190, generator.py:373-380)
CliCheckFormat ==
    /\ cpc = "format"
    /\ IF FormatRejected(cli_format)
       THEN /\ CliExits(ExitFailure, ShownForExitInTry("Invalid format"))
            /\ UNCHANGED generateVars
       ELSE /\ cpc' = "generating"
            /\ GenerateCall(TRUE)
            /\ UNCHANGED <<shown, exit_code>>
    /\ UNCHANGED <<cli_format, cli_width, cli_debug>>

\* generate_visual returned or raised: the results are displayed and the
\* command returns, or the failure is reported and typer.Exit(1) raised
\* (commands.py:193-218)
CliFinish ==
    /\ cpc = "generating"
    /\ gpc \in {"returned", "raised"}
    /\ IF gpc = "raised" THEN CliExits(ExitFailure, <<ErrorShownFor(generated.kind)>>)
       ELSE IF HasFiles(generated.paths) THEN CliExits(ExitSuccess, <<>>)
       ELSE CliExits(ExitFailure, ShownForExitInTry("No files were generated"))
    /\ UNCHANGED <<cli_format, cli_width, cli_debug, generateVars>>

(***************************************************************************)
(* The CI error reporter (.github/scripts/error_reporter.py): main reads   *)
(* its configuration from the environment, tries each notification path    *)
(* that is configured, saves the report and exits.                         *)
(***************************************************************************)
\* a variable of os.environ: not set, or set to a sequence of characters
EnvUnset == <<>>
EnvSet(text) == <<text>>

\* os.environ.get(key) and os.environ.get(key, default)
environ_get(env, key) == env[key]
environ_get_default(env, key, default) ==
    IF env[key] = EnvUnset THEN EnvSet(default) ELSE env[key]

\* truth value of what os.environ.get returned: None and "" are false
Truthy(v) == v # EnvUnset /\ v[1] # <<>>

HookUrl == <<"h", "t", "t", "p", "s", ":", "/", "/", "h">>
Token == <<"g", "h", "p">>
UrlValues == {EnvUnset, EnvSet(<<>>), EnvSet(HookUrl)}
TokenValues == {EnvUnset, EnvSet(<<>>), EnvSet(Token)}
FlagValues == {EnvUnset, EnvSet(<<"t", "r", "u", "e">>), EnvSet(<<"T", "r", "u", "e">>),
               EnvSet(<<"f", "a", "l", "s", "e">>), EnvSet(<<"1">>)}
RepositoryValues == {EnvUnset, EnvSet(<<"o", "/", "r">>), EnvSet(<<"o", "/", "r", "/", "x">>)}

ReporterEnvironments ==
    [SLACK_WEBHOOK : UrlValues, DISCORD_WEBHOOK : UrlValues, ERROR_API_URL : UrlValues,
     GITHUB_TOKEN : TokenValues, CREATE_GITHUB_ISSUE : FlagValues,
     GITHUB_REPOSITORY : RepositoryValues]

\* the locals of main (error_reporter.py:207-212)
slack_webhook == environ_get(reporter_environ, "SLACK_WEBHOOK")
discord_webhook == environ_get(reporter_environ, "DISCORD_WEBHOOK")
api_url == environ_get(reporter_environ, "ERROR_API_URL")
github_token == environ_get(reporter_environ, "GITHUB_TOKEN")
create_issue ==
    str_lower(environ_get_default(reporter_environ, "CREATE_GITHUB_ISSUE",
                                  <<"f", "a", "l", "s", "e">>)[1]) = <<"t", "r", "u", "e">>

\* github_context['repository']: os.environ.get('GITHUB_REPOSITORY', '')
repository == environ_get_default(reporter_environ, "GITHUB_REPOSITORY", <<>>)[1]

\* len(text.split('/'))
SplitCount(text) == Len(SelectSeq(text, LAMBDA c : c = "/")) + 1

\* how requests.post and raise_for_status end; for the issue, response.json()
\* may also fail on the body of a successful response
PostOutcomes == {"ok", "HTTPError", "ConnectionError"}
IssueOutcomes == PostOutcomes \cup {"JSONDecodeError"}

\* send_to_slack, send_to_discord, send_to_api: False without a URL, True when
\* the POST went through, False when anything was raised
send_to_hook(url, posted) ==
    IF ~Truthy(url) THEN FALSE ELSE posted = "ok"

\* create_github_issue: False without a token or with a repository that is
\* not owner/name, True when the POST went through and its body was read
create_github_issue(token, posted) ==
    IF ~Truthy(token) THEN FALSE
    ELSE IF SplitCount(repository) # 2 THEN FALSE
    ELSE posted = "ok"

\* sys.exit(0 if success else 1)
ReporterExitAlwaysZero(ok) == 0
ReporterExitCode(ok) == IF ok THEN 0 ELSE 1

ReporterIdle ==
    /\ rpc = "idle"
    /\ reporter_environ = [k \in {"SLACK_WEBHOOK", "DISCORD_WEBHOOK", "ERROR_API_URL",
                                  "GITHUB_TOKEN", "CREATE_GITHUB_ISSUE",
                                  "GITHUB_REPOSITORY"} |-> EnvUnset]
    /\ success = FALSE
    /\ notified = <<>>
    /\ reporter_exit = NoInt
    /\ snapshot = "none"

\* one step of main: `if enabled: success |= send(...)`
NotifyUntilSuccess(from, to, path, enabled, returned, posted) ==
    /\ rpc = from
    /\ rpc' = to
    /\ IF enabled /\ ~success
       THEN /\ success' = (success \/ returned)
            /\ notified' = Append(notified,
                                  [path |-> path, posted |-> posted, returned |-> returned])
       ELSE UNCHANGED <<success, notified>>
    /\ UNCHANGED <<reporter_environ, reporter_exit, snapshot>>

Notify(from, to, path, enabled, returned, posted) ==
    /\ rpc = from
    /\ rpc' = to
    /\ IF enabled
       THEN /\ success' = (success \/ returned)
            /\ notified' = Append(notified,
                                  [path |-> path, posted |-> posted, returned |-> returned])
       ELSE UNCHANGED <<success, notified>>
    /\ UNCHANGED <<reporter_environ, reporter_exit, snapshot>>

\* the script starts in an environment: ErrorReporter() reads the context,
\* main reads the configuration and sets success = False
ReporterStart(env) ==
    /\ rpc = "idle"
    /\ reporter_environ' = env
    /\ rpc' = "slack"
    /\ success' = FALSE
    /\ UNCHANGED <<notified, reporter_exit, snapshot>>

NotifySlack(posted) ==
    Notify("slack", "discord", "slack", Truthy(slack_webhook),
           send_to_hook(slack_webhook, posted), posted)

NotifyDiscord(posted) ==
    Notify("discord", "api", "discord", Truthy(discord_webhook),
           send_to_hook(discord_webhook, posted), posted)

NotifyApi(posted) ==
    Notify("api", "issue", "api", Truthy(api_url),
           send_to_hook(api_url, posted), posted)

NotifyIssue(posted) ==
    Notify("issue", "save", "issue", create_issue /\ Truthy(github_token),
           create_github_issue(github_token, posted), posted)

\* save_to_file: the report is dumped to error_report.json; whatever open or
\* json.dump raises is caught and answered with False
save_to_file(saved) == IF saved THEN "written" ELSE "failed"

\* reporter.save_to_file(), whose result is dropped, then sys.exit
ReporterExit(saved) ==
    /\ rpc = "save"
    /\ rpc' = "exited"
    /\ snapshot' = save_to_file(saved)
    /\ reporter_exit' = Some(ReporterExitCode(success))
    /\ UNCHANGED <<reporter_environ, success, notified>>

(***************************************************************************)
(* The CI failure-monitor scripts (scripts/check_failures.py,              *)
(* quick_failures.py, gh_monitor.py, get_github_failures.py): each detects *)
(* the repository, looks for a token, fetches the run history and exits.   *)
(***************************************************************************)
Scripts == {"check_failures", "quick_failures", "gh_monitor", "get_github_failures"}

\* the subcommands of gh_monitor; the other scripts only list
Commands(s) == IF s = "gh_monitor" THEN {"list", "analyze", "report"} ELSE {"list"}

\* `git remote get-url origin`: it fails, or prints a github.com URL, or
\* prints the URL of another host
GitOutcomes == {"fails", "github", "other"}

\* what a run finds around it: GITHUB_REPOSITORY (--repo for
\* get_github_failures) given or not, the origin remote, a token or none
MonitorEnvironments == [repository : BOOLEAN, git : GitOutcomes, token : BOOLEAN]

\* how the GET of the run history ends
HttpErrors == {"HTTP 403", "HTTP 404", "HTTP 500"}
FetchOutcomes == {"ok"} \cup HttpErrors \cup {"URLError", "JSONDecodeError"}

\* get_repo / _get_repo / the module body of quick_failures / main of
\* get_github_failures: the repository, None when the script gives up.  Only
\* get_github_failures looks for github.com in the remote URL; the others
\* take whatever follows it, the whole URL when it is absent
DetectedRepo(s, env) ==
    IF env.repository THEN "owner/name"
    ELSE IF env.git = "fails" THEN None
    ELSE IF env.git = "github" THEN "owner/name"
    ELSE IF s = "get_github_failures" THEN None
    ELSE "other/url"

\* the scripts that print a warning when no token is found
\* (check_failures.py:137-139, gh_monitor.py:428-430,
\* get_github_failures.py:188-190); quick_failures has none
WarnsWithoutToken(s) == s # "quick_failures"

\* the exit status after a fetch that ended the run:
\* check_failures exits 1 from both except clauses (167-180);
\* quick_failures prints the error and runs off the end of the module (51-53);
\* gh_monitor turns an HTTPError into None and "Could not fetch workflow
\* runs" (93-96, 121-123, 169-171) and lets any other error escape;
\* get_github_failures exits 1 on every RequestException (34-36)
ExitAfterFetch(s, fetched) ==
    IF fetched = "ok" THEN 0
    ELSE IF s = "quick_failures" THEN 0
    ELSE IF s = "gh_monitor" /\ fetched \in HttpErrors THEN 0
    ELSE 1

MonitorIdle ==
    /\ monitor_pc = "shell"
    /\ script = "check_failures"
    /\ command = "list"
    /\ monitor_environ = [repository |-> FALSE, git |-> "fails", token |-> FALSE]
    /\ repo = None
    /\ warned = FALSE
    /\ fetches = <<>>
    /\ monitor_exit = NoInt

\* a script is started
MonitorRun(s, cmd, env) ==
    /\ monitor_pc = "shell"
    /\ script' = s
    /\ command' = cmd
    /\ monitor_environ' = env
    /\ monitor_pc' = "repo"
    /\ UNCHANGED <<repo, warned, fetches, monitor_exit>>

\* the repository is detected; without one the script prints what to do and
\* calls sys.exit(1)
DetectRepo ==
    /\ monitor_pc = "repo"
    /\ repo' = DetectedRepo(script, monitor_environ)
    /\ IF repo' = None
       THEN monitor_pc' = "exited" /\ monitor_exit' = Some(1)
       ELSE monitor_pc' = "token" /\ UNCHANGED monitor_exit
    /\ UNCHANGED <<script, command, monitor_environ, warned, fetches>>

\* the token is looked up; gh_monitor report prints its report without
\* fetching anything and returns
CheckToken ==
    /\ monitor_pc = "token"
    /\ warned' = (~monitor_environ.token /\ WarnsWithoutToken(script))
    /\ IF command = "report"
       THEN monitor_pc' = "exited" /\ monitor_exit' = Some(0)
       ELSE monitor_pc' = "fetch" /\ UNCHANGED monitor_exit
    /\ UNCHANGED <<script, command, monitor_environ, repo, fetches>>

\* the run history is fetched.  get_github_failures fetches a second time,
\* for the failure rate, when the first fetch found failures (224-226)
FetchRuns(fetched, found) ==
    /\ monitor_pc = "fetch"
    /\ fetches' = Append(fetches, fetched)
    /\ IF script = "get_github_failures" /\ fetched = "ok" /\ found /\ fetches = <<>>
       THEN UNCHANGED <<monitor_pc, monitor_exit>>
       ELSE /\ monitor_pc' = "exited"
            /\ monitor_exit' = Some(ExitAfterFetch(script, fetched))
    /\ UNCHANGED <<script, command, monitor_environ, repo, warned>>

(***************************************************************************)
(* The downloads that call the httpx client themselves: download_file      *)
(* (through _stream_or_bytes), download_file_by_url and save_file_by_url.  *)
(***************************************************************************)
DirectMethods == {"download_file", "download_file_by_url", "save_file_by_url"}

\* the paths on disk; "download" is the name save_file_by_url falls back to
\* when neither the response nor the caller gives one (client.py:389-403)
Paths == {"cd.svg", "inferred.svg", "download", "saved.svg"}

\* a call: save_path is download_file's argument, cd the file name of the
\* Content-Disposition header and inferred_name the caller's hint, both for
\* save_file_by_url; None where there is none
DirectCallOf(method, save_path, cd, inferred_name) ==
    [method |-> method, save_path |-> save_path, cd |-> cd,
     inferred_name |-> inferred_name]

DirectCalls ==
    {DirectCallOf("download_file", p, None, None) : p \in {None, "saved.svg"}}
    \cup {DirectCallOf("download_file_by_url", None, None, None)}
    \cup {DirectCallOf("save_file_by_url", None, cd, n) :
             cd \in {None, "cd.svg"}, n \in {None, "inferred.svg"}}

\* the values of NAPKIN_DOWNLOAD_OVERWRITE tried
OverwriteValues ==
    {EnvUnset, EnvSet(<<"1">>), EnvSet(<<" ", "Y", "E", "S", " ">>), EnvSet(<<"0">>),
     EnvSet(<<"f", "a", "l", "s", "e">>)}

\* the files that exist before the call
ExistingFiles == {{}, {"cd.svg"}, {"inferred.svg"}, {"download"}, {"saved.svg"}, Paths}

\* _get_bool_env(key, default=False) (client.py:490-495)
get_bool_env(val) ==
    IF val = EnvUnset THEN FALSE
    ELSE str_lower(str_strip(val[1])) \in
             {<<"1">>, <<"t", "r", "u", "e">>, <<"y", "e", "s">>, <<"o", "n">>}

\* the file name save_file_by_url settles on (client.py:384-403)
Filename(call) ==
    IF call.cd # None THEN call.cd
    ELSE IF call.inferred_name # None THEN call.inferred_name
    ELSE "download"

\* `dest.exists() and not overwrite` (client.py:408)
MustDedupe(d, dest, overwrite) == d[dest] # "absent" /\ ~overwrite

\* attempts a direct GET is given: self.client.get / self.client.stream are
\* called once, outside _make_request and its @retry (client.py:377, 428,
\* 439, 515)
DirectAttempts == 1

DirectResult(kind, dest) == [kind |-> kind, dest |-> dest]
DirectPending == DirectResult("pending", None)

\* the statuses a download is answered with
DirectStatusCodes == {200, HttpUnauthorized, HttpServerError}

DirectIdle ==
    /\ dpc = "idle"
    /\ direct_call = DirectCallOf("download_file", None, None, None)
    /\ overwrite_env = EnvUnset
    /\ disk = [p \in Paths |-> "absent"]
    /\ gets = 0
    /\ direct_outcome = DirectPending

\* one of the three methods is called, up to its GET
DirectCall(call, env, existing) ==
    /\ dpc = "idle"
    /\ direct_call' = call
    /\ overwrite_env' = env
    /\ disk' = [p \in Paths |-> IF p \in existing THEN "old" ELSE "absent"]
    /\ dpc' = "get"
    /\ gets' = 0
    /\ direct_outcome' = DirectPending

\* the GET raises a transport error: nothing catches it before the caller
DirectGetFails(e) ==
    /\ dpc = "get"
    /\ gets' = gets + 1
    /\ IF gets + 1 >= DirectAttempts
       THEN dpc' = "done" /\ direct_outcome' = DirectResult(e, None)
       ELSE UNCHANGED <<dpc, direct_outcome>>
    /\ UNCHANGED <<direct_call, overwrite_env, disk>>

\* the file at dest is opened for writing and the body streamed into it: the
\* stream runs to its end, or breaks off with a ReadError after the file was
\* truncated
WriteBody(dest, complete) ==
    /\ disk' = [disk EXCEPT ![dest] = IF complete THEN "new" ELSE "partial"]
    /\ direct_outcome' = IF complete THEN DirectResult("ok", dest)
                         ELSE DirectResult("ReadError", None)

\* the GET is answered: an error status is raised by
\* _handle_error_response; otherwise the body is returned as bytes
\* (download_file_by_url, download_file without save_path), written to
\* save_path (download_file), or written to the destination
\* save_file_by_url computes, where self._dedupe_path, which the class does
\* not define, is called for a destination that exists while overwriting is off
DirectGetResponds(status, complete) ==
    /\ dpc = "get"
    /\ gets' = gets + 1
    /\ dpc' = "done"
    /\ IF status >= ErrorThreshold
       THEN /\ direct_outcome' =
                 DirectResult(handle_error_response(
                     Response(status, NoHeaders,
                              Body("text", Absent, Absent, Absent, Absent, ""), 0)).kind,
                     None)
            /\ UNCHANGED disk
       ELSE IF direct_call.method = "save_file_by_url"
       THEN LET dest == Filename(direct_call)
            IN  IF MustDedupe(disk, dest, get_bool_env(overwrite_env))
                THEN /\ direct_outcome' = DirectResult("AttributeError", None)
                     /\ UNCHANGED disk
                ELSE WriteBody(dest, complete)
       ELSE IF direct_call.save_path # None
       THEN WriteBody(direct_call.save_path, complete)
       ELSE /\ direct_outcome' = DirectResult("ok", None)
            /\ UNCHANGED disk
    /\ UNCHANGED <<direct_call, overwrite_env>>

(***************************************************************************)
(* The sleeps of wait_for_completion.  Seconds are exact fractions         *)
(* [num, den]; the float arithmetic of the code rounds monotonically, so   *)
(* the order of two delays and the cap are the same in both.               *)
(***************************************************************************)
Seconds(num, den) == [num |-> num, den |-> den]
NoSeconds == Seconds(0, 1)

\* a <= b, a * b, min(a, b) on fractions
SecondsLeq(a, b) == a.num * b.den <= b.num * a.den
SecondsTimes(a, b) == Seconds(a.num * b.num, a.den * b.den)
SecondsMin(a, b) == IF SecondsLeq(a, b) THEN a ELSE b

\* `delay = min(delay * 1.2, 30)` (client.py:570)
BackoffFactor == Seconds(6, 5)
MaxDelay == Seconds(30, 1)
NextDelay(d) == SecondsMin(SecondsTimes(d, BackoffFactor), MaxDelay)

\* the poll_interval arguments tried (0 stands for None and 0.0, which
\* `or` both replace by the setting) and the values of
\* Settings.poll_interval_seconds, a float with gt=0 and no upper limit
\* (config.py:119-124)
IntervalArgs == {NoSeconds, Seconds(1, 2), Seconds(25, 1), Seconds(45, 1)}
IntervalSettings == {Seconds(2, 1), Seconds(20, 1), Seconds(60, 1)}

\* `poll_interval or self.settings.poll_interval_seconds` (client.py:541)
IntervalInForce(arg, setting) == IF arg.num = 0 THEN setting ELSE arg

BackoffIdle ==
    /\ wpc = "idle"
    /\ poll_interval = NoSeconds
    /\ delay = NoSeconds
    /\ sleeps = <<>>
    /\ wait_attempts = 0
    /\ wait_max = 0

\* wait_for_completion is called (client.py:541-545)
WaitStart(arg, setting, max) ==
    /\ wpc = "idle"
    /\ poll_interval' = IntervalInForce(arg, setting)
    /\ wait_max' = max
    /\ wait_attempts' = 0
    /\ delay' = poll_interval'
    /\ sleeps' = <<>>
    /\ wpc' = "loop"

\* one turn of the loop: the budget is used up (timeout), or get_status
\* raises, or it returns a terminal status (the loop ends), or a status that
\* is not terminal: sleep(delay), the next delay, attempts += 1
\* (client.py:547-573)
WaitTurn(got) ==
    /\ wpc = "loop"
    /\ IF ~LoopContinues(wait_attempts, wait_max)
       THEN /\ wpc' = "raised"
            /\ UNCHANGED <<delay, sleeps, wait_attempts>>
       ELSE IF got = "raises"
       THEN /\ wpc' = "raised"
            /\ UNCHANGED <<delay, sleeps, wait_attempts>>
       ELSE IF got \in TerminalStatuses
       THEN /\ wpc' = IF got = "completed" THEN "returned" ELSE "raised"
            /\ UNCHANGED <<delay, sleeps, wait_attempts>>
       ELSE /\ sleeps' = Append(sleeps, delay)
            /\ delay' = NextDelay(delay)
            /\ wait_attempts' = wait_attempts + 1
            /\ UNCHANGED wpc
    /\ UNCHANGED <<poll_interval, wait_max>>

(***************************************************************************)
(* The dashboard's worker, run_generation_in_worker (streamlit_app.py)     *)
(***************************************************************************)
\* the parameters of VisualGenerator.generate (generator.py:143-158)
GenerateParameters ==
    {"content", "output_dir", "style", "format", "language", "variations",
     "context_before", "context_after", "transparent", "inverted", "width", "height",
     "save_files"}

\* the keywords the worker passes to generate (streamlit_app.py:89-104)
WorkerKeywords ==
    {"content", "style", "format", "width", "height", "variations", "save_files",
     "transparent_background", "inverted_color", "language", "context_before",
     "context_after", "visual_id", "visual_query"}

\* Python binds a call's keywords to the parameters of a function without
\* **kwargs: a keyword that names no parameter is a TypeError, raised before
\* the body runs
CallAccepted(keywords, parameters) == keywords \subseteq parameters

\* what the dashboard collects before it submits (streamlit_app.py:460-475);
\* the token and the content are given, the position of the form varies
WorkerCalls ==
    [format : {"svg", "png"}, transparent_background : BOOLEAN,
     inverted_color : BOOLEAN, language : {None, "en-US"},
     visual : {"none", "visual_id", "visual_query"}]

DashboardIdle ==
    /\ worker_pc = "idle"
    /\ worker_call = [format |-> "svg", transparent_background |-> FALSE,
                      inverted_color |-> FALSE, language |-> None, visual |-> "none"]
    /\ worker_outcome = "pending"

\* the generate button is pressed with a token and valid content: the worker
\* thread starts _gen (streamlit_app.py:158-167)
WorkerSubmit(call) ==
    /\ worker_pc = "idle"
    /\ worker_call' = call
    /\ worker_pc' = "settings"
    /\ UNCHANGED <<worker_outcome, generateVars>>

\* settings = Settings(napkin_api_token=api_token) (streamlit_app.py:86): an
\* instance, or ValidationError when neither the keyword nor the environment
\* provides the token field
WorkerSettings(ok) ==
    /\ worker_pc = "settings"
    /\ IF ok
       THEN worker_pc' = "scope" /\ UNCHANGED worker_outcome
       ELSE worker_pc' = "done" /\ worker_outcome' = "ValidationError"
    /\ UNCHANGED <<worker_call, generateVars>>

\* inside `async with VisualGenerator(settings)`: generator.generate(...,
\* save_files=False, ...) is called (streamlit_app.py:87-104); the exception
\* of a rejected call leaves the scope and reaches the dashboard through
\* future.result()
WorkerCallsGenerate ==
    /\ worker_pc = "scope"
    /\ IF CallAccepted(WorkerKeywords, GenerateParameters)
       THEN /\ GenerateCall(FALSE)
            /\ worker_pc' = "generating"
            /\ UNCHANGED worker_outcome
       ELSE /\ worker_pc' = "done"
            /\ worker_outcome' = "TypeError"
            /\ UNCHANGED generateVars
    /\ UNCHANGED worker_call

(***************************************************************************)
(* get_settings called from several threads. The interpreter may switch    *)
(* threads between any two bytecodes, so the test of the global, the call  *)
(* of _build_settings, the store to the global and the load for `return`   *)
(* are separate steps.                                                     *)
(***************************************************************************)
Threads == 1..MaxThreads

RaceIdle ==
    /\ tpc = [t \in Threads |-> "idle"]
    /\ built = [t \in Threads |-> NoInstance]
    /\ got_settings = [t \in Threads |-> NoInstance]
    /\ late = [t \in Threads |-> FALSE]

\* some caller has seen the global unset and has not stored its instance yet
BuildInProgress == \E t \in Threads : tpc[t] \in {"build", "store"}

\* `if _settings is None:` (config.py:301)
ThreadTests(t) ==
    /\ tpc[t] = "idle"
    /\ tpc' = [tpc EXCEPT ![t] = IF NeedsBuild(_settings) THEN "build" ELSE "load"]
    /\ late' = [late EXCEPT ![t] = _settings # NoInstance /\ ~BuildInProgress]
    /\ UNCHANGED <<built, got_settings, settingsVars>>

\* the call _build_settings() (config.py:302, 262-280): a new instance, or
\* the ValidationError, which leaves get_settings
ThreadBuilds(t) ==
    /\ tpc[t] = "build"
    /\ IF SettingsValidates(environ)
       THEN /\ heap' = Append(heap, environ)
            /\ built' = [built EXCEPT ![t] = Len(heap) + 1]
            /\ tpc' = [tpc EXCEPT ![t] = "store"]
       ELSE /\ tpc' = [tpc EXCEPT ![t] = "raised"]
            /\ UNCHANGED <<heap, built>>
    /\ UNCHANGED <<got_settings, late, environ, _settings, calls>>

\* the assignment `_settings = ...` (config.py:302)
ThreadStores(t) ==
    /\ tpc[t] = "store"
    /\ _settings' = built[t]
    /\ tpc' = [tpc EXCEPT ![t] = "load"]
    /\ UNCHANGED <<built, got_settings, late, environ, heap, calls>>

\* `return _settings` (config.py:303): the global is read again
ThreadReturns(t) ==
    /\ tpc[t] = "load"
    /\ got_settings' = [got_settings EXCEPT ![t] = _settings]
    /\ tpc' = [tpc EXCEPT ![t] = "returned"]
    /\ UNCHANGED <<built, late, settingsVars>>

(***************************************************************************)
(* Specifications                                                          *)
(***************************************************************************)
\* the client: calls of create_visual, get_status, download_file_by_id and
\* wait_for_completion, one at a time, against every server behaviour
nonClientVars == <<batchVars, sessionVars, settingsVars, modelVars, styleVars,
    generateVars, cliVars, reporterVars, monitorVars, directVars, backoffVars, dashboardVars, raceVars>>
nonBatchVars == <<clientVars, sessionVars, settingsVars, modelVars, styleVars,
    generateVars, cliVars, reporterVars, monitorVars, directVars, backoffVars, dashboardVars, raceVars>>
nonSessionVars == <<batchVars, clientVars, settingsVars, modelVars, styleVars,
    generateVars, cliVars, reporterVars, monitorVars, directVars, backoffVars, dashboardVars, raceVars>>
nonSettingsVars == <<batchVars, clientVars, sessionVars, modelVars, styleVars,
    generateVars, cliVars, reporterVars, monitorVars, directVars, backoffVars, dashboardVars, raceVars>>
nonModelVars == <<batchVars, clientVars, sessionVars, settingsVars, styleVars,
    generateVars, cliVars, reporterVars, monitorVars, directVars, backoffVars, dashboardVars, raceVars>>
nonStyleVars == <<batchVars, clientVars, sessionVars, settingsVars, modelVars,
    generateVars, cliVars, reporterVars, monitorVars, directVars, backoffVars, dashboardVars, raceVars>>
nonGenerateVars == <<batchVars, clientVars, sessionVars, settingsVars, modelVars, styleVars,
    cliVars, reporterVars, monitorVars, directVars, backoffVars, dashboardVars, raceVars>>
nonCliVars == <<batchVars, clientVars, sessionVars, settingsVars, modelVars, styleVars,
    reporterVars, monitorVars, directVars, backoffVars, dashboardVars, raceVars>>
nonReporterVars == <<batchVars, clientVars, sessionVars, settingsVars, modelVars, styleVars,
    generateVars, cliVars, monitorVars, directVars, backoffVars, dashboardVars, raceVars>>
nonMonitorVars == <<batchVars, clientVars, sessionVars, settingsVars, modelVars, styleVars,
    generateVars, cliVars, reporterVars, directVars, backoffVars, dashboardVars, raceVars>>
nonDirectVars == <<batchVars, clientVars, sessionVars, settingsVars,
    modelVars, styleVars, generateVars, cliVars, reporterVars, monitorVars, backoffVars, dashboardVars, raceVars>>
nonBackoffVars == <<batchVars, clientVars, sessionVars, settingsVars,
    modelVars, styleVars, generateVars, cliVars, reporterVars, monitorVars,
    directVars, dashboardVars, raceVars>>
nonDashboardVars == <<batchVars, clientVars, sessionVars, settingsVars,
    modelVars, styleVars, cliVars, reporterVars, monitorVars,
    directVars, backoffVars, raceVars>>
nonRaceVars == <<batchVars, clientVars, sessionVars,
    modelVars, styleVars, generateVars, cliVars, reporterVars, monitorVars,
    directVars, backoffVars, dashboardVars>>

Init ==
    /\ ClientIdle
    /\ BatchIdle
    /\ SessionIdle
    /\ SettingsIdle
    /\ ModelIdle
    /\ StyleIdle
    /\ GenerateIdle
    /\ CliIdle
    /\ ReporterIdle
    /\ MonitorIdle
    /\ DirectIdle
    /\ BackoffIdle
    /\ DashboardIdle
    /\ RaceIdle

Next ==
    \/ \E o \in RequestCallers : Call(o) /\ UNCHANGED nonClientVars
    \/ \E arg \in BudgetArgs, settings_max \in 1..MaxPolls :
          WaitCall(arg, settings_max) /\ UNCHANGED nonClientVars
    \/ WaitLoop /\ UNCHANGED nonClientVars
    \/ \E e \in TransportErrors : TransportFailure(e) /\ UNCHANGED nonClientVars
    \/ \E r \in Responses(op) : ResponseArrives(r) /\ UNCHANGED nonClientVars

Spec == Init /\ [][Next]_vars

\* one generate_batch call, its tasks interleaved in every order
BatchSpecInit ==
    /\ BatchInit
    /\ ClientIdle
    /\ SessionIdle
    /\ SettingsIdle
    /\ ModelIdle
    /\ StyleIdle
    /\ GenerateIdle
    /\ CliIdle
    /\ ReporterIdle
    /\ MonitorIdle
    /\ DirectIdle
    /\ BackoffIdle
    /\ DashboardIdle
    /\ RaceIdle

BatchSpecNext ==
    \/ BatchStart /\ UNCHANGED nonBatchVars
    \/ \E i \in DOMAIN task : Acquire(i) /\ UNCHANGED nonBatchVars
    \/ \E i \in DOMAIN task, paths \in PathLists :
          GenerateReturns(i, paths) /\ UNCHANGED nonBatchVars
    \/ \E i \in DOMAIN task, e \in GenerateErrors :
          GenerateRaises(i, e) /\ UNCHANGED nonBatchVars
    \/ BatchReturn /\ UNCHANGED nonBatchVars

BatchSpec == BatchSpecInit /\ [][BatchSpecNext]_vars

\* the generate() call of task i ends, by returning or by raising
GenerateEnds(i) ==
    /\ i \in DOMAIN task
    /\ \/ \E paths \in PathLists : GenerateReturns(i, paths)
       \/ \E e \in GenerateErrors : GenerateRaises(i, e)

\* the task of item i enters `async with semaphore`
TaskAcquires(i) == i \in DOMAIN task /\ Acquire(i)

\* generate_batch on an event loop that keeps running: a coroutine that can
\* take its next step takes it, the waiter of a free permit is woken, and
\* every generate() call that was started ends
BatchFairSpec ==
    /\ BatchSpecInit
    /\ [][BatchSpecNext]_vars
    /\ WF_vars(BatchStart /\ UNCHANGED nonBatchVars)
    /\ \A i \in 1..MaxItems : WF_vars(TaskAcquires(i) /\ UNCHANGED nonBatchVars)
    /\ \A i \in 1..MaxItems : WF_vars(GenerateEnds(i) /\ UNCHANGED nonBatchVars)
    /\ WF_vars(BatchReturn /\ UNCHANGED nonBatchVars)

\* scoped sessions, running side by side; a scope that was entered is left
\* (its body ends, the event loop then runs __aexit__)
SessionSpecInit ==
    /\ SessionIdle
    /\ ClientIdle
    /\ BatchIdle
    /\ SettingsIdle
    /\ ModelIdle
    /\ StyleIdle
    /\ GenerateIdle
    /\ CliIdle
    /\ ReporterIdle
    /\ MonitorIdle
    /\ DirectIdle
    /\ BackoffIdle
    /\ DashboardIdle
    /\ RaceIdle

SessionSpecNext ==
    \/ \E s \in Sessions, kind \in SessionKinds :
          SessionEnter(s, kind) /\ UNCHANGED nonSessionVars
    \/ \E s \in Sessions, how \in ExitPaths :
          BodyEnds(s, how) /\ UNCHANGED nonSessionVars
    \/ \E s \in Sessions : SessionExit(s) /\ UNCHANGED nonSessionVars

SessionLeaves(s) ==
    \/ \E how \in ExitPaths : BodyEnds(s, how) /\ UNCHANGED nonSessionVars
    \/ SessionExit(s) /\ UNCHANGED nonSessionVars

SessionSpec ==
    /\ SessionSpecInit
    /\ [][SessionSpecNext]_vars
    /\ \A s \in Sessions : WF_vars(SessionLeaves(s))

\* one sequential history of get_settings and reload_settings calls, the
\* environment changing between them
SettingsSpecInit ==
    /\ SettingsInit
    /\ ClientIdle
    /\ BatchIdle
    /\ SessionIdle
    /\ ModelIdle
    /\ StyleIdle
    /\ GenerateIdle
    /\ CliIdle
    /\ ReporterIdle
    /\ MonitorIdle
    /\ DirectIdle
    /\ BackoffIdle
    /\ DashboardIdle
    /\ RaceIdle

SettingsSpecNext ==
    \/ \E env \in EnvValues : EnvChanges(env) /\ UNCHANGED nonSettingsVars
    \/ get_settings /\ UNCHANGED nonSettingsVars
    \/ reload_settings /\ UNCHANGED nonSettingsVars

SettingsSpec == SettingsSpecInit /\ [][SettingsSpecNext]_vars

\* one constructor call of a pydantic model, over the arguments tried
ModelSpecInit ==
    /\ ModelInit
    /\ ClientIdle
    /\ BatchIdle
    /\ SessionIdle
    /\ SettingsIdle
    /\ StyleIdle
    /\ GenerateIdle
    /\ CliIdle
    /\ ReporterIdle
    /\ MonitorIdle
    /\ DirectIdle
    /\ BackoffIdle
    /\ DashboardIdle
    /\ RaceIdle

ModelSpecNext ==
    \/ ConstructVisualRequest /\ UNCHANGED nonModelVars
    \/ ConstructStatusResponse /\ UNCHANGED nonModelVars
    \/ ConstructVisualResponse /\ UNCHANGED nonModelVars

ModelSpec == ModelSpecInit /\ [][ModelSpecNext]_vars

\* one get_style_by_name call, over the names tried
StyleSpecInit ==
    /\ StyleInit
    /\ ClientIdle
    /\ BatchIdle
    /\ SessionIdle
    /\ SettingsIdle
    /\ ModelIdle
    /\ GenerateIdle
    /\ CliIdle
    /\ ReporterIdle
    /\ MonitorIdle
    /\ DirectIdle
    /\ BackoffIdle
    /\ DashboardIdle
    /\ RaceIdle

StyleSpecNext == LookUpStyle /\ UNCHANGED nonStyleVars

StyleSpec == StyleSpecInit /\ [][StyleSpecNext]_vars

\* one generate call, against every behaviour of the client
GenerateSpecInit ==
    /\ GenerateIdle
    /\ CliIdle
    /\ ReporterIdle
    /\ MonitorIdle
    /\ DirectIdle
    /\ BackoffIdle
    /\ DashboardIdle
    /\ RaceIdle
    /\ ClientIdle
    /\ BatchIdle
    /\ SessionIdle
    /\ SettingsIdle
    /\ ModelIdle
    /\ StyleIdle

GenerateSpecNext ==
    \/ \E save \in BOOLEAN : GenerateCall(save) /\ UNCHANGED nonGenerateVars
    \/ \E kw \in GenerateRequests : PrepareRequest(kw) /\ UNCHANGED nonGenerateVars
    \/ CreateReturns /\ UNCHANGED nonGenerateVars
    \/ \E e \in ClientErrors : ClientRaises(e) /\ UNCHANGED nonGenerateVars
    \/ \E st \in FinalStatuses : WaitReturns(st) /\ UNCHANGED nonGenerateVars
    \/ \E ok \in BOOLEAN : MakeOutputDir(ok) /\ UNCHANGED nonGenerateVars
    \/ \E result \in {"ok"} \cup DownloadErrors :
          DownloadFile(result) /\ UNCHANGED nonGenerateVars
    \/ GenerateReturn /\ UNCHANGED nonGenerateVars

GenerateSpec == GenerateSpecInit /\ [][GenerateSpecNext]_vars

\* one run of `napkin generate`, with generate running inside it; nonCliVars
\* leaves out the variables of generate, which the command drives
CliSpecInit ==
    /\ CliIdle
    /\ ReporterIdle
    /\ MonitorIdle
    /\ DirectIdle
    /\ BackoffIdle
    /\ DashboardIdle
    /\ RaceIdle
    /\ GenerateIdle
    /\ ClientIdle
    /\ BatchIdle
    /\ SessionIdle
    /\ SettingsIdle
    /\ ModelIdle
    /\ StyleIdle

CliSpecNext ==
    \/ \E f \in FormatOptions, w \in WidthOptions, debug \in BOOLEAN :
          CliInvoke(f, w, debug) /\ UNCHANGED nonCliVars
    \/ \E ok \in BOOLEAN : CliLoadSettings(ok) /\ UNCHANGED nonCliVars
    \/ CliCheckFormat /\ UNCHANGED nonCliVars
    \/ PrepareRequest(CliRequest) /\ UNCHANGED nonGenerateVars
    \/ CreateReturns /\ UNCHANGED nonGenerateVars
    \/ \E e \in ClientErrors : ClientRaises(e) /\ UNCHANGED nonGenerateVars
    \/ \E st \in FinalStatuses : WaitReturns(st) /\ UNCHANGED nonGenerateVars
    \/ \E ok \in BOOLEAN : MakeOutputDir(ok) /\ UNCHANGED nonGenerateVars
    \/ \E result \in {"ok"} \cup DownloadErrors :
          DownloadFile(result) /\ UNCHANGED nonGenerateVars
    \/ GenerateReturn /\ UNCHANGED nonGenerateVars
    \/ CliFinish /\ UNCHANGED nonCliVars

CliSpec == CliSpecInit /\ [][CliSpecNext]_vars

\* one run of the error reporter, in every environment and against every
\* behaviour of the services it posts to
ReporterSpecInit ==
    /\ ReporterIdle
    /\ MonitorIdle
    /\ DirectIdle
    /\ BackoffIdle
    /\ DashboardIdle
    /\ RaceIdle
    /\ CliIdle
    /\ GenerateIdle
    /\ ClientIdle
    /\ BatchIdle
    /\ SessionIdle
    /\ SettingsIdle
    /\ ModelIdle
    /\ StyleIdle

ReporterSpecNext ==
    \/ \E env \in ReporterEnvironments : ReporterStart(env) /\ UNCHANGED nonReporterVars
    \/ \E posted \in PostOutcomes : NotifySlack(posted) /\ UNCHANGED nonReporterVars
    \/ \E posted \in PostOutcomes : NotifyDiscord(posted) /\ UNCHANGED nonReporterVars
    \/ \E posted \in PostOutcomes : NotifyApi(posted) /\ UNCHANGED nonReporterVars
    \/ \E posted \in IssueOutcomes : NotifyIssue(posted) /\ UNCHANGED nonReporterVars
    \/ \E saved \in BOOLEAN : ReporterExit(saved) /\ UNCHANGED nonReporterVars

ReporterSpec == ReporterSpecInit /\ [][ReporterSpecNext]_vars

\* one run of a failure-monitor script, in every environment and against
\* every behaviour of the run-history API
MonitorSpecInit ==
    /\ MonitorIdle
    /\ DirectIdle
    /\ BackoffIdle
    /\ DashboardIdle
    /\ RaceIdle
    /\ ReporterIdle
    /\ CliIdle
    /\ GenerateIdle
    /\ ClientIdle
    /\ BatchIdle
    /\ SessionIdle
    /\ SettingsIdle
    /\ ModelIdle
    /\ StyleIdle

MonitorSpecNext ==
    \/ \E s \in Scripts : \E cmd \in Commands(s), env \in MonitorEnvironments :
          MonitorRun(s, cmd, env) /\ UNCHANGED nonMonitorVars
    \/ DetectRepo /\ UNCHANGED nonMonitorVars
    \/ CheckToken /\ UNCHANGED nonMonitorVars
    \/ \E fetched \in FetchOutcomes, found \in BOOLEAN :
          FetchRuns(fetched, found) /\ UNCHANGED nonMonitorVars

MonitorSpec == MonitorSpecInit /\ [][MonitorSpecNext]_vars

\* one direct download, over the calls, the files already on disk and the
\* behaviour of the server
DirectSpecInit ==
    /\ DirectIdle
    /\ BackoffIdle
    /\ DashboardIdle
    /\ RaceIdle
    /\ MonitorIdle
    /\ ReporterIdle
    /\ CliIdle
    /\ GenerateIdle
    /\ ClientIdle
    /\ BatchIdle
    /\ SessionIdle
    /\ SettingsIdle
    /\ ModelIdle
    /\ StyleIdle

DirectSpecNext ==
    \/ \E call \in DirectCalls, env \in OverwriteValues, existing \in ExistingFiles :
          DirectCall(call, env, existing) /\ UNCHANGED nonDirectVars
    \/ \E e \in TransportErrors : DirectGetFails(e) /\ UNCHANGED nonDirectVars
    \/ \E status \in DirectStatusCodes, complete \in BOOLEAN :
          DirectGetResponds(status, complete) /\ UNCHANGED nonDirectVars

DirectSpec == DirectSpecInit /\ [][DirectSpecNext]_vars

\* one wait_for_completion call, over the intervals and budgets tried and
\* the answers of get_status
BackoffSpecInit ==
    /\ BackoffIdle
    /\ DashboardIdle
    /\ RaceIdle
    /\ DirectIdle
    /\ MonitorIdle
    /\ ReporterIdle
    /\ CliIdle
    /\ GenerateIdle
    /\ ClientIdle
    /\ BatchIdle
    /\ SessionIdle
    /\ SettingsIdle
    /\ ModelIdle
    /\ StyleIdle

BackoffSpecNext ==
    \/ \E arg \in IntervalArgs, setting \in IntervalSettings, max \in 1..MaxPolls :
          WaitStart(arg, setting, max) /\ UNCHANGED nonBackoffVars
    \/ \E got \in RequestStatuses \cup {"raises"} :
          WaitTurn(got) /\ UNCHANGED nonBackoffVars

BackoffSpec == BackoffSpecInit /\ [][BackoffSpecNext]_vars

\* one press of the dashboard's generate button
DashboardSpecInit ==
    /\ DashboardIdle
    /\ RaceIdle
    /\ BackoffIdle
    /\ DirectIdle
    /\ MonitorIdle
    /\ ReporterIdle
    /\ CliIdle
    /\ GenerateIdle
    /\ ClientIdle
    /\ BatchIdle
    /\ SessionIdle
    /\ SettingsIdle
    /\ ModelIdle
    /\ StyleIdle

DashboardSpecNext ==
    \/ \E call \in WorkerCalls : WorkerSubmit(call) /\ UNCHANGED nonDashboardVars
    \/ \E ok \in BOOLEAN : WorkerSettings(ok) /\ UNCHANGED nonDashboardVars
    \/ WorkerCallsGenerate /\ UNCHANGED nonDashboardVars

DashboardSpec == DashboardSpecInit /\ [][DashboardSpecNext]_vars

\* MaxThreads threads call get_settings once each, in every interleaving and
\* in every environment
RaceSpecInit ==
    /\ RaceIdle
    /\ SettingsInit
    /\ DashboardIdle
    /\ BackoffIdle
    /\ DirectIdle
    /\ MonitorIdle
    /\ ReporterIdle
    /\ CliIdle
    /\ GenerateIdle
    /\ ClientIdle
    /\ BatchIdle
    /\ SessionIdle
    /\ ModelIdle
    /\ StyleIdle

RaceSpecNext ==
    \/ \E t \in Threads : ThreadTests(t) /\ UNCHANGED nonRaceVars
    \/ \E t \in Threads : ThreadBuilds(t) /\ UNCHANGED nonRaceVars
    \/ \E t \in Threads : ThreadStores(t) /\ UNCHANGED nonRaceVars
    \/ \E t \in Threads : ThreadReturns(t) /\ UNCHANGED nonRaceVars

RaceSpec == RaceSpecInit /\ [][RaceSpecNext]_vars

(***************************************************************************)
(* Claims about generate_batch, checked under BatchSpec.                   *)
(***************************************************************************)
Failed == {i \in DOMAIN task : task[i] = "failed"}

\* C1: during generate_batch, in every interleaving of the per-item tasks, the
\* number of generate() workflows started and not yet finished never exceeds
\* L, the concurrent_limit argument or, when it is unset,
\* Settings.batch_concurrent_limit.
C1_ConcurrencyBounded ==
    bpc # "init" => Cardinality(Running) <= EffectiveLimit

\* L workflows are running and another item waits for a permit
C1_Witness ==
    /\ bpc = "gathering"
    /\ EffectiveLimit >= 2
    /\ Cardinality(Running) = EffectiveLimit
    /\ \E i \in DOMAIN task : task[i] = "created"

\* C2: generate_batch returns exactly len(contents) entries and entry i
\* carries contents[i] as its first element, whatever the completion order
\* and whichever items failed.
C2_ResultsInInputOrder ==
    bpc = "returned" =>
        /\ Len(batchResult) = Len(contents)
        /\ \A i \in 1..Len(contents) : batchResult[i][1] = contents[i]

\* a returned batch of distinct contents that finished out of input order,
\* one item having failed
C2_Witness ==
    /\ bpc = "returned"
    /\ Len(contents) >= 2
    /\ contents[1] # contents[2]
    /\ doneOrder[1] # 1
    /\ Failed # {}
    /\ Failed # DOMAIN task

\* C3: when generate() raises for item i, the item's result is
\* (contents[i], None, []), the batch call does not raise, and every other
\* item still runs to its own result.
C3_ItemFailureIsolated ==
    /\ bpc # "raised"
    /\ \A i \in DOMAIN task :
          /\ task[i] # "raised"
          /\ task[i] = "failed" => taskResult[i] = <<contents[i], None, <<>>>>
    /\ Failed # {} =>
          \A j \in DOMAIN task :
              /\ task[j] = "generating" => ENABLED GenerateReturns(j, <<"p1">>)
              /\ (task[j] = "created" /\ semaphore > 0) => ENABLED Acquire(j)
    /\ bpc = "returned" =>
          \A i \in DOMAIN task :
              /\ task[i] = "failed" => batchResult[i] = <<contents[i], None, <<>>>>
              /\ task[i] = "done" =>
                    /\ batchResult[i][1] = contents[i]
                    /\ batchResult[i][2] = "completed"

\* a returned batch in which one item failed and another completed with a file
C3_Witness ==
    /\ bpc = "returned"
    /\ \E i, j \in DOMAIN task :
          /\ task[i] = "failed"
          /\ task[j] = "done"
          /\ doneOrder[1] = i
          /\ batchResult[j][3] = <<"p1">>

(***************************************************************************)
(* Claims about the client, checked under Spec.                            *)
(***************************************************************************)
\* the call in progress or last finished is a wait_for_completion
Waiting == op = "wait_for_completion"

\* the last response of the current call, when there is one
HasResponse == resp # <<>>
LastResponse == resp[1]

\* the last response is a status payload with the given status
LastPollStatusIn(S) ==
    /\ HasResponse
    /\ LastResponse.status_code < ErrorThreshold
    /\ LastResponse.body.kind = "object"
    /\ LastResponse.body.status \in S
    /\ get_status_result(LastResponse).kind = "ok"

\* C4: if every status poll returns pending or processing,
\* wait_for_completion with an attempt budget of N issues exactly N
\* get_status calls and then raises a ProcessingError whose message reports N.
C4_TimeoutAfterBudget ==
    Waiting =>
        /\ polls <= max_attempts
        /\ (pc = "idle" /\ pollsReturned = polls /\ pollsNonTerminal = polls) =>
              /\ polls = max_attempts
              /\ outcome.kind = "ProcessingError"
              /\ outcome.message = Msg("Timeout after {} attempts", "", max_attempts)

\* a wait with a budget of at least two that timed out
C4_Witness ==
    /\ Waiting
    /\ pc = "idle"
    /\ max_attempts >= 2
    /\ pollsNonTerminal = max_attempts
    /\ outcome.kind = "ProcessingError"
    /\ outcome.message.fmt = "Timeout after {} attempts"

\* C5: wait_for_completion stops at the first poll that returns a terminal
\* status and issues no further poll; it returns that StatusResponse if and
\* only if the status is completed, raises ProcessingError with the
\* provider's error text (or 'Unknown error') if it is failed, and raises
\* ProcessingError 'Request expired' if it is expired.
C5_StopsAtTerminal ==
    Waiting =>
        /\ LastPollStatusIn({"completed", "failed", "expired"}) =>
              /\ pc = "idle"
              /\ polls = pollsReturned
              /\ pollsReturned = pollsNonTerminal + 1
              /\ LastResponse.body.status = "completed" =>
                    /\ outcome = get_status_result(LastResponse)
                    /\ outcome.value.status = "completed"
              /\ LastResponse.body.status = "failed" =>
                    /\ outcome.kind = "ProcessingError"
                    /\ outcome.message.fmt = "Visual generation failed: {}"
                    /\ outcome.message.arg =
                          IF LastResponse.body.error = Absent THEN "Unknown error"
                          ELSE LastResponse.body.error
              /\ LastResponse.body.status = "expired" =>
                    /\ outcome.kind = "ProcessingError"
                    /\ outcome.message = Msg("Request expired", "", 0)
        /\ outcome.kind = "ok" => LastPollStatusIn({"completed"})

\* a wait that polled a non-terminal status and then a failed one with the
\* provider's error text
C5_Witness ==
    /\ Waiting
    /\ pc = "idle"
    /\ pollsNonTerminal >= 1
    /\ LastPollStatusIn({"failed"})
    /\ LastResponse.body.error = "render failed"
    /\ outcome.message.arg = "render failed"

\* the typed errors of the client (client.py:39-63)
TypedErrors == {"AuthenticationError", "RateLimitError", "RequestError", "NapkinAPIError"}

\* C6: on the request path a transport failure is retried until an attempt
\* succeeds or 3 attempts in total were made, after which the transport
\* failure surfaces; a response with status >= 400 is never retried: one
\* attempt is made and the typed error is raised.
C6_RetryOnlyTransport ==
    /\ tries <= StopAfterAttempt
    /\ pc = "request" => tries < StopAfterAttempt
    /\ outcome.kind = "RetryError" =>
          /\ tries = StopAfterAttempt
          /\ outcome.cause \in TransportErrors
    /\ (HasResponse /\ LastResponse.status_code >= ErrorThreshold) =>
          /\ pc = "idle"
          /\ outcome.kind \in TypedErrors

\* the typed error the claim gives each status
ClaimedErrorFor(status_code) ==
    IF status_code = HttpUnauthorized THEN "AuthenticationError"
    ELSE IF status_code = HttpRateLimit THEN "RateLimitError"
    ELSE IF status_code = HttpBadRequest THEN "RequestError"
    ELSE "NapkinAPIError"

\* C7: every response with status >= 400 becomes exactly one typed error
\* chosen by status alone (401, 429, 400, other), and the error carries the
\* provider's message and the machine code and details of the JSON error
\* body when they are present.
C7_TypedErrorCarriesBody ==
    (pc = "idle" /\ HasResponse /\ LastResponse.status_code >= ErrorThreshold) =>
        /\ outcome.kind = ClaimedErrorFor(LastResponse.status_code)
        /\ LastResponse.body.kind = "object" =>
              /\ LastResponse.body.error # Absent =>
                    outcome.message = Msg("{}", LastResponse.body.error, 0)
              /\ LastResponse.body.code # Absent => outcome.code = LastResponse.body.code
              /\ LastResponse.body.details # Absent =>
                    outcome.details = LastResponse.body.details

\* C8: a 429 response always raises a rate-limit error whose retry_after is
\* the integer value of the Retry-After header, and 60 when the header is
\* absent or does not parse as an integer.
C8_RetryAfterDefault ==
    (pc = "idle" /\ HasResponse /\ LastResponse.status_code = HttpRateLimit) =>
        /\ outcome.kind = "RateLimitError"
        /\ outcome.retry_after =
              IF "Retry-After" \in DOMAIN LastResponse.headers
                 /\ IntParses(LastResponse.headers["Retry-After"])
              THEN Some(PyInt(LastResponse.headers["Retry-After"]))
              ELSE Some(DefaultRetryAfter)

\* C9: after any sequence of requests get_rate_limit_status() returns the
\* RateLimitInfo of the most recent response that carried rate-limit headers,
\* and None only if no response so far carried such headers.
C9_MostRecentRateLimit ==
    /\ lastHeaderInfo # <<>> =>
          get_rate_limit_status =
              extract_rate_limit_info(lastHeaderInfo[1].headers, lastHeaderInfo[1].now)
    /\ get_rate_limit_status = NoInfo => lastHeaderInfo = <<>>

\* the payload holds a list under the key
PayloadHas(v) == v.kind = "list"

\* get_status returned a StatusResponse for the last response
StatusReturned ==
    /\ op = "get_status" /\ pc = "idle"
    /\ HasResponse /\ LastResponse.status_code < ErrorThreshold
    /\ outcome.kind = "ok"

\* a counter of the payload, 0 when it is missing
CounterOrZero(c) == IF c = NoInt THEN 0 ELSE c[1]

\* C16: get_status picks the file list by fixed precedence: generated_files
\* when the payload has it, otherwise files, otherwise urls (each URL turned
\* into a {url: ...} record); the chosen list is attached to the returned
\* StatusResponse and files_ready and files_total both equal its length;
\* when none of the three is present, files_ready and files_total are the
\* payload's counters, each 0 when missing.
C16_FileListPrecedence ==
    StatusReturned =>
        LET p == LastResponse.body.payload
            v == outcome.value
            chosen == IF PayloadHas(p.generated_files) THEN p.generated_files.items
                      ELSE IF PayloadHas(p.files) THEN p.files.items
                      ELSE [k \in 1..Len(p.urls.items) |-> [url |-> p.urls.items[k].string]]
        IN  IF PayloadHas(p.generated_files) \/ PayloadHas(p.files) \/ PayloadHas(p.urls)
            THEN /\ v.files = SomeList(chosen)
                 /\ v.files_ready = Len(chosen)
                 /\ v.files_total = Len(chosen)
            ELSE /\ v.files = NoList
                 /\ v.files_ready = CounterOrZero(p.files_ready)
                 /\ v.files_total = CounterOrZero(p.files_total)

\* the payload has files and urls (and counters that say otherwise), and no
\* generated_files: the files list is chosen
C16_Witness ==
    /\ StatusReturned
    /\ LastResponse.body.payload.generated_files = JsonMissing
    /\ LastResponse.body.payload.files = JsonList(<<F1>>)
    /\ LastResponse.body.payload.urls = JsonList(<<U1, U2>>)
    /\ LastResponse.body.payload.files_total = Some(3)
    /\ outcome.value.files = SomeList(<<F1>>)
    /\ outcome.value.files_total = 1

(***************************************************************************)
(* Claims about the scoped sessions, checked under SessionSpec.            *)
(***************************************************************************)
\* the pool of session s was closed exactly once
ClosedOnce(s) == pool[s] = "closed" /\ closes[s] = 1

\* C10: for an API client, and for a VisualGenerator session that owns one,
\* the connection pool is closed exactly once over the client's lifetime, on
\* every exit path of the scoped session (return, exception, cancellation),
\* and every client that is constructed is eventually closed.
C10_PoolClosedExactlyOnce ==
    /\ [](\A s \in Sessions :
            /\ closes[s] <= 1
            /\ spc[s] = "exited" => ClosedOnce(s)
            /\ spc[s] \in {"body", "exiting"} => (pool[s] = "open" /\ closes[s] = 0))
    /\ \A s \in Sessions : (pool[s] = "open") ~> ClosedOnce(s)

\* a generator session left by cancellation and a client session left by an
\* exception, both with their pool closed once
C10_Witness ==
    \E s, t \in Sessions :
        /\ skind[s] = "generator" /\ sexit[s] = "cancel" /\ spc[s] = "exited"
        /\ skind[t] = "client" /\ sexit[t] = "raise" /\ spc[t] = "exited"
        /\ ClosedOnce(s) /\ ClosedOnce(t)

(***************************************************************************)
(* Claims about the settings singleton, checked under SettingsSpec.        *)
(***************************************************************************)
CallReturned(i) == calls[i].ret # NoInstance

\* no reload_settings call lies strictly between calls i and j
NoReloadBetween(i, j) == \A k \in (i + 1)..(j - 1) : calls[k].fn # "reload_settings"

\* C11: in a sequential history of get_settings() and reload_settings()
\* calls, two get_settings() calls with no reload between them return the
\* identical instance; reload_settings() returns an instance distinct from
\* every earlier one; get_settings() after a reload returns the instance
\* that reload returned; and an instance captured before a reload still has
\* the fields it had when it was returned.
C11_SettingsSingleton ==
    /\ \A i, j \in DOMAIN calls :
          /\ i < j
          /\ calls[i].fn = "get_settings" /\ calls[j].fn = "get_settings"
          /\ CallReturned(i) /\ CallReturned(j)
          /\ NoReloadBetween(i, j)
          => calls[j].ret = calls[i].ret
    /\ \A j \in DOMAIN calls :
          calls[j].fn = "reload_settings" /\ CallReturned(j)
          => \A i \in 1..(j - 1) : calls[i].ret # calls[j].ret
    /\ \A i, j \in DOMAIN calls :
          /\ i < j
          /\ calls[i].fn = "reload_settings" /\ calls[j].fn = "get_settings"
          /\ CallReturned(i) /\ CallReturned(j)
          /\ NoReloadBetween(i, j)
          => calls[j].ret = calls[i].ret
    /\ \A i \in DOMAIN calls :
          CallReturned(i) => heap[calls[i].ret] = calls[i].fields

\* get, get, reload under a changed environment, get
C11_Witness ==
    /\ Len(calls) = 4
    /\ calls[1].fn = "get_settings" /\ calls[2].fn = "get_settings"
    /\ calls[3].fn = "reload_settings" /\ calls[4].fn = "get_settings"
    /\ \A i \in 1..4 : CallReturned(i)
    /\ calls[3].fields # calls[1].fields

(***************************************************************************)
(* Claims about the pydantic models, checked under ModelSpec.              *)
(***************************************************************************)
Constructed(m) == model = m /\ mpc # "args"

\* C12: constructing a VisualRequest fails whenever format is not png and
\* width or height is supplied; it succeeds for format png with width and
\* height each in 100..4096 (the content being valid); so a VisualRequest
\* that exists has neither width nor height unless its format is png.
C12_PngDimensionsOnlyForPng ==
    Constructed("VisualRequest") =>
        /\ (kwargs.format # "png" /\ (kwargs.width # NoInt \/ kwargs.height # NoInt))
              => mpc = "failed"
        /\ ( /\ kwargs.format = "png"
             /\ kwargs.width # NoInt /\ kwargs.width[1] \in 100..4096
             /\ kwargs.height # NoInt /\ kwargs.height[1] \in 100..4096
             /\ kwargs.content \in 1..10000 )
              => mpc = "built"
        /\ (mpc = "built" /\ instance.format # "png")
              => (instance.width = NoInt /\ instance.height = NoInt)

\* an svg request with a height alone is rejected
C12_Witness ==
    /\ Constructed("VisualRequest")
    /\ kwargs.content = 4 /\ kwargs.format = "svg"
    /\ kwargs.width = NoInt /\ kwargs.height = Some(1024)
    /\ mpc = "failed"

\* the arguments of a StatusResponse other than progress are valid
StatusCountsAccepted ==
    /\ kwargs.request_id \in 8..64
    /\ kwargs.status \in {"pending", "processing", "completed", "failed", "expired"}
    /\ kwargs.files_ready >= 0 /\ kwargs.files_total >= 0
    /\ (kwargs.files_ready <= kwargs.files_total \/ kwargs.files_total = 0)

\* C13: constructing a StatusResponse fails when progress is outside
\* [0, 100] and succeeds at 0 and at 100 (the other arguments being valid);
\* it fails when files_ready > files_total, except that any files_ready
\* count is accepted when files_total is 0.
C13_ProgressAndFileCounts ==
    Constructed("StatusResponse") =>
        /\ (kwargs.progress # NoInt /\ (kwargs.progress[1] < 0 \/ kwargs.progress[1] > 100))
              => mpc = "failed"
        /\ (kwargs.progress \in {Some(0), Some(100)} /\ StatusCountsAccepted)
              => mpc = "built"
        /\ (kwargs.files_ready > kwargs.files_total /\ kwargs.files_total # 0)
              => mpc = "failed"
        /\ ( /\ kwargs.files_total = 0 /\ kwargs.files_ready >= 0
             /\ kwargs.request_id \in 8..64
             /\ kwargs.status \in {"pending", "processing", "completed", "failed", "expired"}
             /\ (kwargs.progress = NoInt \/ kwargs.progress[1] \in 0..100) )
              => mpc = "built"

\* two files ready of a total of 0, progress 100: accepted
C13_Witness ==
    /\ Constructed("StatusResponse")
    /\ kwargs.progress = Some(100)
    /\ kwargs.files_total = 0 /\ kwargs.files_ready = 2
    /\ mpc = "built"

\* C14: for every request status, VisualResponse.is_terminal is true exactly
\* for completed, failed and expired (false for pending and processing); at
\* most one of is_completed, is_failed, is_expired is true, and each of them
\* implies is_terminal.
C14_TerminalProperties ==
    (Constructed("VisualResponse") /\ mpc = "built") =>
        /\ is_terminal(instance) <=> instance.status \in {"completed", "failed", "expired"}
        /\ instance.status \in {"pending", "processing"} => ~is_terminal(instance)
        /\ ~(is_completed(instance) /\ is_failed(instance))
        /\ ~(is_completed(instance) /\ is_expired(instance))
        /\ ~(is_failed(instance) /\ is_expired(instance))
        /\ is_completed(instance) => is_terminal(instance)
        /\ is_failed(instance) => is_terminal(instance)
        /\ is_expired(instance) => is_terminal(instance)

\* an expired response: is_expired and is_terminal, nothing else
C14_Witness ==
    /\ Constructed("VisualResponse") /\ mpc = "built"
    /\ instance.status = "expired"
    /\ is_expired(instance) /\ is_terminal(instance)
    /\ ~is_completed(instance) /\ ~is_failed(instance)

(***************************************************************************)
(* Claims about get_style_by_name, checked under StyleSpec.                *)
(***************************************************************************)
StyleLookedUp == styleOutcome.kind # "pending"

\* the name is the slug or the display name of catalog entry i, in any
\* letter case
SameIgnoringCase(a, b) ==
    /\ Len(a) = Len(b)
    /\ \A k \in 1..Len(a) : LowerChar(a[k]) = LowerChar(b[k])
NamesEntry(n, i) ==
    \/ SameIgnoringCase(n, StyleCatalog[i].slug)
    \/ SameIgnoringCase(n, StyleCatalog[i].name)

\* the name is, up to letter case, surrounding blanks and blanks written for
\* hyphens, the slug or the display name of some catalog entry
MatchesSomeEntry(n) ==
    \E i \in DOMAIN StyleCatalog :
        \/ SameIgnoringCase(str_replace(str_strip(n), " ", "-"), StyleCatalog[i].slug)
        \/ SameIgnoringCase(str_strip(n), StyleCatalog[i].name)

\* the part of the error message after the quoted name
AfterQuotedName ==
    SubSeq(styleOutcome.message, Len(NotFoundPrefix) + Len(style_name) + 3,
           Len(styleOutcome.message))

\* C15 as stated: get_style_by_name returns the same Style for a style's
\* slug and for its display name in any letter case; for a name that
\* matches no catalog entry it fails with a not-found error whose message
\* enumerates the catalog slugs and contains no provider style id.
C15_StyleLookup ==
    StyleLookedUp =>
        /\ \A i \in DOMAIN StyleCatalog :
              NamesEntry(style_name, i)
              => styleOutcome.kind = "returned" /\ styleOutcome.style = StyleCatalog[i]
        /\ ~MatchesSomeEntry(style_name)
              => /\ styleOutcome.kind = "ValueError"
                 /\ \A i \in DOMAIN StyleCatalog :
                       /\ Contains(styleOutcome.message, StyleCatalog[i].slug)
                       /\ ~Contains(styleOutcome.message, StyleCatalog[i].id)

\* C15 amended: as above, but the message quotes the given name, and it is
\* the rest of the message, the enumeration, that contains no provider
\* style id.
C15_StyleLookupQuotingName ==
    StyleLookedUp =>
        /\ \A i \in DOMAIN StyleCatalog :
              NamesEntry(style_name, i)
              => styleOutcome.kind = "returned" /\ styleOutcome.style = StyleCatalog[i]
        /\ ~MatchesSomeEntry(style_name)
              => /\ styleOutcome.kind = "ValueError"
                 /\ Contains(styleOutcome.message, str_repr(style_name))
                 /\ \A i \in DOMAIN StyleCatalog :
                       /\ Contains(AfterQuotedName, StyleCatalog[i].slug)
                       /\ ~Contains(AfterQuotedName, StyleCatalog[i].id)

\* "does-not-exist" is not found, and the message lists the slugs
C15_Witness ==
    /\ StyleLookedUp
    /\ style_name = DoesNotExist
    /\ styleOutcome.kind = "ValueError"
    /\ Contains(styleOutcome.message, StyleCatalog[1].slug)

(***************************************************************************)
(* Claims about generate, checked under GenerateSpec.                      *)
(***************************************************************************)
\* the positions of the files whose download succeeded, in file order
RECURSIVE SucceededPaths(_)
SucceededPaths(k) ==
    IF k = 0 THEN <<>>
    ELSE IF downloads[k].result = "ok"
         THEN Append(SucceededPaths(k - 1), [position |-> k])
         ELSE SucceededPaths(k - 1)

SomeDownloadFailed == \E k \in DOMAIN downloads : downloads[k].result # "ok"

\* C17: in generate() with save_files enabled, a failure while downloading
\* one file does not abort the operation or prevent the download of the
\* remaining files: generate still returns the completed status, and the
\* returned path list contains exactly the files whose download succeeded,
\* in file order.
C17_DownloadFailureIsolated ==
    /\ SomeDownloadFailed => gpc \in {"download", "returned"}
    /\ (gpc = "returned" /\ save_files) =>
          /\ generated.kind = "ok"
          /\ generated.status = final_status
          /\ generated.status.status = "completed"
          /\ Len(downloads) = (IF final_status.files_ready > 0
                               THEN FilesToDownload(final_status) ELSE 0)
          /\ generated.paths = SucceededPaths(Len(downloads))

\* three files: the first and the third are saved, the download of the
\* second failed
C17_Witness ==
    /\ gpc = "returned" /\ save_files
    /\ Len(downloads) = 3
    /\ downloads[1].result = "ok"
    /\ downloads[2].result # "ok"
    /\ downloads[3].result = "ok"
    /\ generated.paths = <<[position |-> 1], [position |-> 3]>>

(***************************************************************************)
(* Claims about the CLI generate command, checked under CliSpec.           *)
(***************************************************************************)
\* the process has ended after click accepted the options
CommandRan ==
    /\ cpc = "exited"
    /\ (cli_width = NoInt \/ cli_width[1] \in 100..4096)

\* --format was given and is neither svg nor png
InvalidFormatValue == cli_format \notin {<<>>, <<"s", "v", "g">>, <<"p", "n", "g">>}

\* generate_visual returned at least one file path
FilesProduced == gpc = "returned" /\ generated.kind = "ok" /\ Len(generated.paths) >= 1

\* C18: the CLI generate command exits with status 1 on every failure path
\* (invalid --format value, authentication error, rate-limit error, other
\* API error, unexpected error, a completed run that produced zero files)
\* and exits 0 only when at least one file path was produced; an invalid
\* --format value is rejected before any request is sent to the Visual API.
C18_CliExitCodes ==
    CommandRan =>
        /\ InvalidFormatValue => exit_code = Some(1) /\ ~api_called
        /\ gpc = "raised" => exit_code = Some(1)
        /\ (gpc = "returned" /\ generated.paths = <<>>) => exit_code = Some(1)
        /\ gpc = "idle" => exit_code = Some(1)
        /\ exit_code = Some(0) => FilesProduced
        /\ exit_code \in {Some(0), Some(1)}

\* a run that completed, found files to download and saved none of them
C18_Witness ==
    /\ CommandRan
    /\ gpc = "returned" /\ generated.status.status = "completed"
    /\ Len(downloads) >= 1
    /\ generated.paths = <<>>
    /\ exit_code = Some(1)

(***************************************************************************)
(* Claims about the CI error reporter, checked under ReporterSpec.         *)
(***************************************************************************)
\* a variable of the reporter's environment is set to a non-empty value
IsSet(key) == reporter_environ[key] # <<>> /\ reporter_environ[key] # <<<<>>>>

\* CREATE_GITHUB_ISSUE reads "true" in any letter case
IssueFlagOn ==
    /\ reporter_environ["CREATE_GITHUB_ISSUE"] # <<>>
    /\ reporter_environ["CREATE_GITHUB_ISSUE"][1] \in
           {<<"t", "r", "u", "e">>, <<"T", "r", "u", "e">>}

\* the notification paths the environment enables
EnabledPaths ==
    {p \in {"slack", "discord", "api", "issue"} :
        \/ p = "slack" /\ IsSet("SLACK_WEBHOOK")
        \/ p = "discord" /\ IsSet("DISCORD_WEBHOOK")
        \/ p = "api" /\ IsSet("ERROR_API_URL")
        \/ p = "issue" /\ IssueFlagOn /\ IsSet("GITHUB_TOKEN")}

\* the paths that were tried and reported success
ReportedSuccess == {notified[k].path : k \in {j \in DOMAIN notified : notified[j].returned}}

\* C19: the CI error reporter's exit code is 0 if and only if at least one
\* enabled notification path (chat webhook of either format, generic API
\* endpoint, issue creation) reported success, and 1 otherwise, including
\* when no path is enabled.
C19_ReporterExitCode ==
    rpc = "exited" =>
        /\ {notified[k].path : k \in DOMAIN notified} = EnabledPaths
        /\ reporter_exit = Some(0) <=> (ReportedSuccess \cap EnabledPaths) # {}
        /\ reporter_exit # Some(0) => reporter_exit = Some(1)
        /\ EnabledPaths = {} => reporter_exit = Some(1)

\* a run in which one enabled path failed and a later one reported success
C19_Witness ==
    /\ rpc = "exited"
    /\ "slack" \in EnabledPaths \ ReportedSuccess
    /\ "issue" \in EnabledPaths \cap ReportedSuccess
    /\ reporter_exit = Some(0)

\* the notification paths in the order main tries them
PathOrder == <<"slack", "discord", "api", "issue">>
IsEnabledPath(p) == p \in EnabledPaths

\* the paths main has reached so far
PathsReached ==
    CASE rpc = "idle" -> 0
      [] rpc = "slack" -> 0
      [] rpc = "discord" -> 1
      [] rpc = "api" -> 2
      [] rpc = "issue" -> 3
      [] OTHER -> 4

\* C26: in the CI error reporter, every enabled notification channel is
\* attempted whatever the outcome of the channels before it, and the local
\* JSON snapshot is written on every run: after all channels succeed, after
\* any of them fails, and when none is enabled.
C26_AllChannelsThenSnapshot ==
    /\ rpc # "idle" =>
           [k \in DOMAIN notified |-> notified[k].path] =
               SelectSeq(SubSeq(PathOrder, 1, PathsReached), IsEnabledPath)
    /\ rpc = "exited" => snapshot # "none"

\* a run in which the first channel succeeded, a later one failed, a third
\* was still attempted, and the snapshot was written
C26_Witness ==
    /\ rpc = "exited"
    /\ Len(notified) >= 3
    /\ notified[1].returned
    /\ ~notified[2].returned
    /\ snapshot = "written"

(***************************************************************************)
(* Claims about the CI failure-monitor scripts, checked under MonitorSpec. *)
(***************************************************************************)
\* the script ended and was one that fetches the run history
MonitorRan == monitor_pc = "exited" /\ command # "report"

\* the last fetch of the run history failed
FetchFailed == fetches # <<>> /\ fetches[Len(fetches)] # "ok"

\* C20: every CI failure-monitor script exits with code 1 when the
\* repository cannot be determined and when fetching the run history fails
\* with HTTP 403 or 404 or another unrecoverable fetch error; an absent token
\* alone only prints a warning and the fetch is still attempted.
C20_MonitorExitCodes ==
    MonitorRan =>
        /\ repo = None => monitor_exit = Some(1)
        /\ FetchFailed => monitor_exit = Some(1)
        /\ (~monitor_environ.token /\ repo # None) => warned /\ fetches # <<>>

(***************************************************************************)
(* Claims about the direct downloads, checked under DirectSpec.            *)
(***************************************************************************)
\* the overwrite toggle is off: unset, or set to none of 1, true, yes, on
OverwriteOff ==
    overwrite_env \notin {<<<<"1">>>>, <<<<" ", "Y", "E", "S", " ">>>>}

\* save_file_by_url received the whole body of a successful response
SaveGotBody ==
    /\ dpc = "done"
    /\ direct_call.method = "save_file_by_url"
    /\ direct_outcome.kind \notin TransportErrors \cup
           {"ReadError", "AuthenticationError", "RateLimitError", "RequestError",
            "NapkinAPIError"}

\* the destination save_file_by_url computes
ComputedDestination ==
    IF direct_call.cd # "None" THEN direct_call.cd
    ELSE IF direct_call.inferred_name # "None" THEN direct_call.inferred_name
    ELSE "download"

\* C21: save_file_by_url never overwrites an existing file while the
\* overwrite toggle is off: when the computed destination already exists,
\* the download completes and is written to a new path with a numeric
\* suffix, and the existing file's content is unchanged.
C21_NoOverwrite ==
    (SaveGotBody /\ OverwriteOff /\ disk[ComputedDestination] = "old") =>
        /\ direct_outcome.kind = "ok"
        /\ direct_outcome.dest # ComputedDestination

\* a direct download ended with the transport failure of its GET
DirectTransportFailure == dpc = "done" /\ direct_outcome.kind \in {"ConnectError", "ReadTimeout"}

\* C23: every HTTP request the client issues, including download_file,
\* download_file_by_url and save_file_by_url, passes through the automatic
\* retry: a transport failure on any of them is retried up to 3 attempts in
\* total before it surfaces.
C23_DownloadsRetried == DirectTransportFailure => gets = 3

(***************************************************************************)
(* Claims about the sleeps of wait_for_completion, checked under           *)
(* BackoffSpec.                                                            *)
(***************************************************************************)
\* a <= b for seconds given as fractions
AtMost(a, b) == a.num * b.den <= b.num * a.den
SameSeconds(a, b) == a.num * b.den = b.num * a.den

\* 1.2 times a, or 30 seconds when that is more
TimesOnePointTwoCapped(a) ==
    IF 6 * a.num <= 30 * 5 * a.den THEN [num |-> 6 * a.num, den |-> 5 * a.den]
    ELSE [num |-> 30, den |-> 1]

\* C22: in wait_for_completion the sleep before poll k+1 is the configured
\* interval for k = 1 and 1.2 times the previous sleep afterwards, capped at
\* 30 seconds: for every configured poll interval, no sleep between two polls
\* exceeds 30 seconds and the sequence of sleeps never decreases.
C22_BackoffSleeps ==
    /\ sleeps # <<>> => SameSeconds(sleeps[1], poll_interval)
    /\ \A k \in 1..(Len(sleeps) - 1) :
          SameSeconds(sleeps[k + 1], TimesOnePointTwoCapped(sleeps[k]))
    /\ \A k \in DOMAIN sleeps : AtMost(sleeps[k], [num |-> 30, den |-> 1])
    /\ \A k \in 1..(Len(sleeps) - 1) : AtMost(sleeps[k], sleeps[k + 1])

(***************************************************************************)
(* Further claims about the client, checked under Spec.                    *)
(***************************************************************************)
\* header `name` of the last response holds an integer
HeaderParses(name) ==
    /\ name \in DOMAIN LastResponse.headers
    /\ IntParses(LastResponse.headers[name])

\* the integer header `name` holds, or `default` when it is absent or unparseable
HeaderIntOr(name, default) ==
    IF HeaderParses(name) THEN PyInt(LastResponse.headers[name]) ELSE default

\* the last response carried X-RateLimit-Limit or Retry-After
LastCarriesRateLimit ==
    /\ HasResponse
    /\ ("X-RateLimit-Limit" \in DOMAIN LastResponse.headers
        \/ "Retry-After" \in DOMAIN LastResponse.headers)

\* C24: when a response carries rate-limit headers, the recorded
\* RateLimitInfo takes its reset from the X-RateLimit-Reset epoch header when
\* that header is present, and otherwise from the current time plus the
\* parsed Retry-After seconds; a missing or unparseable reset never raises
\* and never discards the limit, remaining and retry_after values of that
\* response.
C24_ResetFromHeaders ==
    (LastCarriesRateLimit /\ HeaderIntOr("X-RateLimit-Limit", 60) >= 0) =>
        /\ rate_limit_info # <<>>
        /\ rate_limit_info[1].limit = HeaderIntOr("X-RateLimit-Limit", 60)
        /\ rate_limit_info[1].remaining = HeaderIntOr("X-RateLimit-Remaining", 0)
        /\ rate_limit_info[1].retry_after =
              IF HeaderParses("Retry-After")
              THEN <<PyInt(LastResponse.headers["Retry-After"])>> ELSE <<>>
        /\ rate_limit_info[1].reset =
              IF HeaderParses("X-RateLimit-Reset")
              THEN <<PyInt(LastResponse.headers["X-RateLimit-Reset"])>>
              ELSE IF HeaderParses("Retry-After")
              THEN <<LastResponse.now + PyInt(LastResponse.headers["Retry-After"])>>
              ELSE <<>>

(***************************************************************************)
(* Claims about the dashboard's worker, checked under DashboardSpec.       *)
(***************************************************************************)
\* the worker built its settings and called generate
WorkerCalledGenerate == worker_pc \in {"generating", "done"} /\ worker_outcome # "ValidationError"

\* C25: when the dashboard's generate action is submitted with a token and
\* valid content, the worker calls VisualGenerator.generate with save_files
\* disabled and the collected parameters (transparent background, inverted
\* colour, language, context, visual id or query); the call is accepted, a
\* create-visual request is submitted, and no file is written to disk.
C25_WorkerGenerates ==
    WorkerCalledGenerate =>
        /\ worker_outcome # "TypeError"
        /\ gpc # "idle"
        /\ save_files = FALSE
        /\ saved_paths = <<>>

(***************************************************************************)
(* Further claims about generate, checked under GenerateSpec.              *)
(***************************************************************************)
\* generate has received the final status
HasFinalStatus == final_status # NoStatus

\* C27: generate() performs file downloads only when save_files is true and
\* the final status reports at least one ready file; with save_files false it
\* issues no download request, writes no file and returns an empty path
\* list, whatever files the status lists.
C27_DownloadsOnlyWhenSaving ==
    /\ (downloads # <<>> \/ gpc \in {"mkdir", "download"}) =>
           /\ save_files
           /\ HasFinalStatus
           /\ final_status.files_ready > 0
    /\ ~save_files =>
           /\ downloads = <<>>
           /\ saved_paths = <<>>
           /\ gpc = "returned" => generated.paths = <<>>

\* generate returned without saving although the status listed ready files
C27_Witness ==
    /\ gpc = "returned"
    /\ ~save_files
    /\ HasFinalStatus
    /\ final_status.files_ready > 0
    /\ FilesOf(final_status) # <<>>
    /\ generated.paths = <<>>

(***************************************************************************)
(* Claims about concurrent get_settings calls, checked under RaceSpec.     *)
(***************************************************************************)
HasReturned(t) == tpc[t] = "returned"

\* C28: when several callers run get_settings() concurrently while the
\* singleton is still unset, each caller gets a valid Settings instance,
\* possibly a different one per caller but all built from the same
\* environment; once all of those calls have returned, every later
\* get_settings() call returns one and the same instance until the next
\* reload.
C28_ConcurrentFirstCalls ==
    /\ SettingsValidates(environ) => \A t \in Threads : tpc[t] # "raised"
    /\ \A t \in Threads :
          HasReturned(t) =>
              /\ got_settings[t] \in DOMAIN heap
              /\ heap[got_settings[t]] = environ
    /\ \A t \in Threads :
          (HasReturned(t) /\ late[t]) => got_settings[t] = _settings
    /\ \A t, u \in Threads :
          (HasReturned(t) /\ late[t] /\ HasReturned(u) /\ late[u]) =>
              got_settings[t] = got_settings[u]

\* two callers raced and got different instances; a third called after
\* both had returned
C28_Witness ==
    /\ \E t, u, v \in Threads :
          /\ HasReturned(t) /\ HasReturned(u) /\ HasReturned(v)
          /\ ~late[t] /\ ~late[u] /\ late[v]
          /\ got_settings[t] # got_settings[u]
          /\ got_settings[v] = _settings

(***************************************************************************)
(* Further claims about the settings singleton, checked under SettingsSpec.*)
(***************************************************************************)
\* call j raised the ValidationError of _build_settings
CallFailed(j) == calls[j].ret = NoInstance

\* the calls before position j that returned an instance
ReturnedBefore(j) == {i \in 1..(j - 1) : ~CallFailed(i)}

\* the largest member of a non-empty set of positions
LastOf(S) == CHOOSE i \in S : \A k \in S : k <= i

\* what the last call before position j that returned had returned
StoredBefore(j) ==
    IF ReturnedBefore(j) = {} THEN NoInstance ELSE calls[LastOf(ReturnedBefore(j))].ret

\* C29: when reload_settings() (or a first get_settings()) fails validation,
\* the error propagates and the stored singleton is left exactly as it was:
\* after a failed reload, get_settings() still returns the instance it
\* returned before, and after a failed first build the singleton stays unset
\* so that the next call builds again.
C29_FailedBuildKeepsSingleton ==
    /\ _settings = StoredBefore(Len(calls) + 1)
    /\ \A j \in DOMAIN calls :
          (CallFailed(j) /\ j + 1 \in DOMAIN calls /\ calls[j + 1].fn = "get_settings"
             /\ ~CallFailed(j + 1)) =>
              IF ReturnedBefore(j) # {}
              THEN calls[j + 1].ret = StoredBefore(j)
              ELSE /\ calls[j + 1].ret = 1
                   /\ heap[1] = calls[j + 1].fields

\* get_settings returned an instance, reload_settings then failed in an
\* environment without the token, and get_settings returned the instance again
C29_Witness ==
    /\ Len(calls) >= 3
    /\ calls[1].fn = "get_settings" /\ ~CallFailed(1)
    /\ calls[2].fn = "reload_settings" /\ CallFailed(2)
    /\ calls[3].fn = "get_settings" /\ calls[3].ret = calls[1].ret

(***************************************************************************)
(* Termination of generate_batch, checked under BatchFairSpec.             *)
(***************************************************************************)
\* the task of item i has entered `async with semaphore`
HasAcquired(i) == i \in DOMAIN task /\ task[i] # "created"

\* C30: provided every individual generate() call terminates (returns or
\* raises), generate_batch terminates for any number of items and any
\* concurrency limit of at least 1: every item eventually acquires a
\* semaphore permit and runs, a permit is released on both the success and
\* the failure path of an item, and all permits are free when the batch
\* returns.
C30_BatchTerminates ==
    /\ <>(bpc = "returned")
    /\ \A i \in 1..MaxItems : (i \in DOMAIN contents) ~> HasAcquired(i)
    /\ [](bpc = "gathering" => semaphore + Cardinality(Running) = EffectiveLimit)
    /\ [](bpc = "returned" =>
             /\ semaphore = EffectiveLimit
             /\ Len(batchResult) = Len(contents))

\* a batch of MaxItems items under a limit of one permit returned, with
\* items that failed and items that succeeded
C30_Witness ==
    /\ bpc = "returned"
    /\ Len(contents) = MaxItems
    /\ EffectiveLimit = 1
    /\ \E i, j \in DOMAIN task : task[i] = "failed" /\ task[j] = "done"
    /\ semaphore = 1

====
